---- MODULE Spec2Model ----
(***************************************************************************)
(* The catalog scripts of flatstone-claude-skills: scripts/catalog.py      *)
(* (parse_entries, update_entry_allocated and their helpers) and the       *)
(* allocate command of scripts/ports.py.                                   *)
(*                                                                         *)
(* A Python str is a sequence of one-character strings, the catalog file   *)
(* is the sequence of its lines (content.split('\n'); '\n'.join is the     *)
(* exact inverse), a dict is the sequence of its (key, value) pairs in     *)
(* insertion order, and None is the record None below.                     *)
(***************************************************************************)
EXTENDS Integers, Sequences, FiniteSets, TLC

VARIABLES
    catalog,    \* the file CATALOG.md: [exists, lines]
    op,         \* the call that ran last: its arguments and what it returned
    entries,    \* what get_all_entries returned last
    procs,      \* the ports.py allocate processes: position and locals
    overlapped  \* TRUE once an allocate process started while another was running

vars == <<catalog, op, entries, procs, overlapped>>

---------------------------------------------------------------------------
(* Python values *)

None == [some |-> FALSE]
Some(v) == [some |-> TRUE, v |-> v]

---------------------------------------------------------------------------
(* str methods *)

UpperChars == <<"A", "B", "C", "D", "E", "F", "G", "H", "I", "J", "K", "L", "M",
                "N", "O", "P", "Q", "R", "S", "T", "U", "V", "W", "X", "Y", "Z">>
LowerChars == <<"a", "b", "c", "d", "e", "f", "g", "h", "i", "j", "k", "l", "m",
                "n", "o", "p", "q", "r", "s", "t", "u", "v", "w", "x", "y", "z">>
DigitChars == <<"0", "1", "2", "3", "4", "5", "6", "7", "8", "9">>

LowerCh(c) ==
    IF \E k \in 1..Len(UpperChars) : UpperChars[k] = c
    THEN LowerChars[CHOOSE k \in 1..Len(UpperChars) : UpperChars[k] = c]
    ELSE c

UpperCh(c) ==
    IF \E k \in 1..Len(LowerChars) : LowerChars[k] = c
    THEN UpperChars[CHOOSE k \in 1..Len(LowerChars) : LowerChars[k] = c]
    ELSE c

\* s.lower(), s.upper()
Lower(s) == [k \in 1..Len(s) |-> LowerCh(s[k])]
Upper(s) == [k \in 1..Len(s) |-> UpperCh(s[k])]

\* s.startswith(p)
StartsWith(s, p) == Len(s) >= Len(p) /\ SubSeq(s, 1, Len(p)) = p

\* sub in s
Contains(s, sub) ==
    \E k \in 0..(Len(s) - Len(sub)) : SubSeq(s, k + 1, k + Len(sub)) = sub

\* the character U+0060, which a string of this notation cannot hold
Backtick == "BACKTICK"

IsSpace(c) == c \in {" ", "\t", "\r"}

\* s.strip(chars): the characters of cs removed from both ends
StripSet(s, cs) ==
    LET keep == {k \in 1..Len(s) : s[k] \notin cs}
    IN IF keep = {} THEN <<>>
       ELSE SubSeq(s, CHOOSE a \in keep : \A b \in keep : a <= b,
                      CHOOSE a \in keep : \A b \in keep : a >= b)

\* s.strip()
Strip(s) == StripSet(s, {" ", "\t", "\r"})

\* the index of the first c in s, 0 when there is none
IndexOf(s, c) ==
    IF \E k \in 1..Len(s) : s[k] = c
    THEN CHOOSE k \in 1..Len(s) : s[k] = c /\ \A j \in 1..(k - 1) : s[j] # c
    ELSE 0

\* s.split(c): one more part than there are separators
RECURSIVE Split(_, _)
Split(s, c) ==
    LET k == IndexOf(s, c)
    IN IF k = 0 THEN <<s>>
       ELSE <<SubSeq(s, 1, k - 1)>> \o Split(SubSeq(s, k + 1, Len(s)), c)

\* sep.join(parts)
RECURSIVE Join(_, _)
Join(parts, sep) ==
    IF Len(parts) = 0 THEN <<>>
    ELSE IF Len(parts) = 1 THEN parts[1]
    ELSE parts[1] \o sep \o Join(Tail(parts), sep)

---------------------------------------------------------------------------
(* int(text) and str(int) *)

DigitVal(c) == (CHOOSE k \in 1..Len(DigitChars) : DigitChars[k] = c) - 1
IsDigit(c) == \E k \in 1..Len(DigitChars) : DigitChars[k] = c

RECURSIVE DigitsVal(_)
DigitsVal(s) ==
    IF Len(s) = 0 THEN 0
    ELSE 10 * DigitsVal(SubSeq(s, 1, Len(s) - 1)) + DigitVal(s[Len(s)])

\* the digits int() accepts: decimal digits, with single "_" between digits
IsNumeral(digits) ==
    /\ Len(digits) > 0
    /\ \A k \in 1..Len(digits) : IsDigit(digits[k]) \/ digits[k] = "_"
    /\ IsDigit(digits[1]) /\ IsDigit(digits[Len(digits)])
    /\ \A k \in 1..(Len(digits) - 1) : ~(digits[k] = "_" /\ digits[k + 1] = "_")

NumeralVal(digits) == DigitsVal(SelectSeq(digits, IsDigit))

\* the value of an optional sign followed by digits, None for any other text
SignedVal(t, signed, digits) ==
    IF IsNumeral(digits)
    THEN Some(IF signed /\ t[1] = "-" THEN 0 - NumeralVal(digits) ELSE NumeralVal(digits))
    ELSE None

StrippedInt(t) ==
    IF Len(t) > 0 /\ t[1] \in {"+", "-"}
    THEN SignedVal(t, TRUE, Tail(t))
    ELSE SignedVal(t, FALSE, t)

\* int(s): surrounding whitespace and one sign are accepted; anything else
\* raises ValueError, which every caller catches: None stands for the raise
ParseInt(s) == StrippedInt(Strip(s))

RECURSIVE NatToText(_)
NatToText(n) ==
    IF n < 10 THEN <<DigitChars[n + 1]>>
    ELSE NatToText(n \div 10) \o <<DigitChars[(n % 10) + 1]>>

\* f"{port}"
IntToText(n) == IF n < 0 THEN <<"-">> \o NatToText(0 - n) ELSE NatToText(n)

---------------------------------------------------------------------------
(* dict: a sequence of <<key, value>> pairs with distinct keys *)

DictKeys(d) == {d[k][1] : k \in 1..Len(d)}
DictHas(d, key) == \E k \in 1..Len(d) : d[k][1] = key
DictGet(d, key) == d[CHOOSE k \in 1..Len(d) : d[k][1] = key][2]

\* d[key] = value: an existing key keeps its position
DictSet(d, key, value) ==
    IF DictHas(d, key)
    THEN [k \in 1..Len(d) |-> IF d[k][1] = key THEN <<key, value>> ELSE d[k]]
    ELSE Append(d, <<key, value>>)

\* d1 == d2 of Python: the same pairs, in any order
DictEq(d1, d2) == {d1[k] : k \in 1..Len(d1)} = {d2[k] : k \in 1..Len(d2)}

---------------------------------------------------------------------------
(* catalog.py: the Allocated and Ports values *)

\* the width of a range given as a single port
DefaultRange == 10

\* name, port_str = part.split(':', 1) for a part with its first ':' at k
PartName(part, k) == Strip(SubSeq(part, 1, k - 1))
PartPort(part, k) == ParseInt(Strip(SubSeq(part, k + 1, Len(part))))

\* one round of the loop of parse_allocated: part is stripped, k is the place
\* of its first ':' (0: no colon), port the int of what follows (None: ValueError)
AddPart(result, part, k, port) ==
    IF k > 0 /\ port.some THEN DictSet(result, PartName(part, k), port.v) ELSE result

\* AddStrippedPart with the try around the whole loop and "return {}" in the
\* except: a piece that is not "label:int" empties the result
AddStrippedPart_Aborts(result, part) ==
    IF IndexOf(part, ":") > 0 /\ PartPort(part, IndexOf(part, ":")).some
    THEN AddPart(result, part, IndexOf(part, ":"), PartPort(part, IndexOf(part, ":")))
    ELSE <<>>

AddStrippedPart(result, part) ==
    AddPart(result, part, IndexOf(part, ":"), PartPort(part, IndexOf(part, ":")))

RECURSIVE ParseAllocatedParts(_, _)
ParseAllocatedParts(parts, result) ==
    IF Len(parts) = 0 THEN result
    ELSE ParseAllocatedParts(Tail(parts), AddStrippedPart(result, Strip(parts[1])))

\* parse_allocated(allocated_str)
parse_allocated(allocated_str) ==
    IF Len(allocated_str) = 0 THEN <<>>
    ELSE ParseAllocatedParts(Split(allocated_str, ","), <<>>)

\* sorted(items, key=lambda x: x[1]): stable, equal ports keep their order;
\* InsertLast puts the last item behind the sorted earlier items that have a
\* port no greater than its own
InsertLast(rest, last) ==
    SubSeq(rest, 1, Cardinality({k \in 1..Len(rest) : rest[k][2] <= last[2]}))
        \o <<last>>
        \o SubSeq(rest, Cardinality({k \in 1..Len(rest) : rest[k][2] <= last[2]}) + 1, Len(rest))

RECURSIVE SortedByPort(_)
SortedByPort(items) ==
    IF Len(items) = 0 THEN <<>>
    ELSE InsertLast(SortedByPort(SubSeq(items, 1, Len(items) - 1)), items[Len(items)])

\* ", ".join([f"{name}:{port}" for name, port in items])
JoinItems(items) ==
    Join([k \in 1..Len(items) |-> items[k][1] \o <<":">> \o IntToText(items[k][2])],
         <<",", " ">>)

\* format_allocated without sorted(): the items in their order of insertion
format_allocated_Unsorted(allocated_dict) ==
    IF Len(allocated_dict) = 0 THEN <<>> ELSE JoinItems(allocated_dict)

\* format_allocated(allocated_dict)
format_allocated(allocated_dict) ==
    IF Len(allocated_dict) = 0 THEN <<>> ELSE JoinItems(SortedByPort(allocated_dict))

\* "(" at j opens a match of \([^)]+\): the first ")" after it is not the next
\* character
OpensMatch(s, j) ==
    /\ s[j] = "("
    /\ \E k \in (j + 2)..Len(s) : s[k] = ")" /\ \A i \in (j + 1)..(k - 1) : s[i] # ")"

\* where the match that "(" at j opens ends, and where it starts once the
\* whitespace in front of the "(" is taken in
MatchEnd(s, j) ==
    CHOOSE a \in (j + 2)..Len(s) : s[a] = ")" /\ \A i \in (j + 1)..(a - 1) : s[i] # ")"
MatchStart(s, j) ==
    CHOOSE a \in 1..j :
        /\ \A i \in a..(j - 1) : IsSpace(s[i])
        /\ \A b \in 1..(a - 1) : \E i \in b..(j - 1) : ~IsSpace(s[i])

FirstOf(set) == CHOOSE a \in set : \A b \in set : a <= b

\* re.sub(r'\s*\([^)]+\)', '', s): every leftmost "(...)" with at least one
\* character inside, and the whitespace in front of it, is removed
RECURSIVE RemoveParens(_)
RemoveParensFrom(s, j) ==
    SubSeq(s, 1, MatchStart(s, j) - 1) \o RemoveParens(SubSeq(s, MatchEnd(s, j) + 1, Len(s)))
RemoveParensIn(s, opens) ==
    IF opens = {} THEN s ELSE RemoveParensFrom(s, FirstOf(opens))
RemoveParens(s) == RemoveParensIn(s, {j \in 1..Len(s) : OpensMatch(s, j)})

\* RangeOf with "end - start" for the size
RangeOf_NoPlusOne(start, end) ==
    IF start.some /\ end.some
    THEN <<Some(start.v), Some(end.v - start.v)>>
    ELSE <<None, None>>

\* return start, end - start + 1, or None, None on ValueError
RangeOf(start, end) ==
    IF start.some /\ end.some
    THEN <<Some(start.v), Some(end.v - start.v + 1)>>
    ELSE <<None, None>>

\* return int(ports_str.strip()), 10, or None, None on ValueError
SinglePort(p) == IF p.some THEN <<Some(p.v), Some(DefaultRange)>> ELSE <<None, None>>

\* parts = ports_str.split('-'); parts[2:] are not looked at
RangeOfParts(parts) == RangeOf(ParseInt(Strip(parts[1])), ParseInt(Strip(parts[2])))

CleanedPortRange(s) ==
    IF IndexOf(s, "-") > 0 THEN RangeOfParts(Split(s, "-"))
    ELSE SinglePort(ParseInt(Strip(s)))

\* parse_port_range(ports_str): <<base_port, port_range>>
parse_port_range(ports_str) ==
    IF Len(ports_str) = 0 THEN <<None, None>>
    ELSE CleanedPortRange(Strip(RemoveParens(ports_str)))

---------------------------------------------------------------------------
(* config.py and catalog.py: parse_entries *)

\* list(get_categories().keys()) of the default configuration
category_names == <<<<"W", "O", "R", "K">>, <<"P", "E", "R", "S", "O", "N", "A", "L">>,
                    <<"E", "X", "P", "E", "R", "I", "M", "E", "N", "T", "S">>,
                    <<"T", "O", "O", "L", "S">>>>

stop_sections == <<<<"Q", "u", "i", "c", "k", " ", "R", "e", "f", "e", "r", "e", "n", "c", "e">>,
                   <<"E", "n", "t", "r", "y", " ", "F", "o", "r", "m", "a", "t", " ", "R", "e", "f", "e", "r", "e", "n", "c", "e">>>>

InSeq(x, seq) == \E k \in 1..Len(seq) : seq[k] = x

\* line.startswith('## ') and not line.startswith('### ')
IsSectionHeader(line) ==
    StartsWith(line, <<"#", "#", " ">>) /\ ~StartsWith(line, <<"#", "#", "#", " ">>)

\* line[3:].strip(), line[4:].strip()
SectionName(line) == Strip(SubSeq(line, 4, Len(line)))
EntryName(line) == Strip(SubSeq(line, 5, Len(line)))

\* IsStopSection with only the first stop section in the list
IsStopSection_FirstOnly(section_name) == section_name = stop_sections[1]

\* section_name in stop_sections
IsStopSection(section_name) == InSeq(section_name, stop_sections)

\* section_name.upper() in [c.upper() for c in category_names]
IsKnownCategory(section_name) ==
    \E k \in 1..Len(category_names) : Upper(category_names[k]) = Upper(section_name)

\* CategoryOf without the call of upper()
CategoryOf_AsWritten(section_name) == section_name

\* current_category = section_name.upper()
CategoryOf(section_name) == Upper(section_name)

\* NewEntry with a default put where None belongs: 'status': 'active'
NewEntry_DefaultStatus(name, category, i) ==
    [name |-> name, category |-> category, type |-> None, path |-> None,
     ports |-> None, allocated |-> None, stack |-> None, github |-> None,
     status |-> Some(<<"a", "c", "t", "i", "v", "e">>), description |-> None,
     line_start |-> i, base_port |-> None, port_range |-> None,
     allocated_dict |-> <<>>, command |-> None]

\* NewEntry with 'line_start': i + 1, the one-based number of the line
NewEntry_OneBased(name, category, i) ==
    [name |-> name, category |-> category, type |-> None, path |-> None,
     ports |-> None, allocated |-> None, stack |-> None, github |-> None,
     status |-> None, description |-> None, line_start |-> i + 1,
     base_port |-> None, port_range |-> None, allocated_dict |-> <<>>,
     command |-> None]

\* the dict a "### Name" heading opens; the optional key 'command' is absent
\* from it, which is None here
NewEntry(name, category, i) ==
    [name |-> name, category |-> category, type |-> None, path |-> None,
     ports |-> None, allocated |-> None, stack |-> None, github |-> None,
     status |-> None, description |-> None, line_start |-> i,
     base_port |-> None, port_range |-> None, allocated_dict |-> <<>>,
     command |-> None]

\* [p.strip() for p in cells[1:-1]]
InnerCells(cells) == [k \in 1..(Len(cells) - 2) |-> Strip(cells[k + 1])]

\* [p.strip() for p in line.split('|')[1:-1]]
RowParts(line) == InnerCells(Split(line, "|"))

\* the 'ports' branch: base, range_size = parse_port_range(value)
SetPorts(entry, value, range) ==
    [entry EXCEPT !.ports = Some(value), !.base_port = range[1], !.port_range = range[2]]

\* the if/elif chain over key of parse_entries
SetField(entry, key, value) ==
    IF key = <<"t", "y", "p", "e">> THEN [entry EXCEPT !.type = Some(value)]
    ELSE IF key = <<"p", "a", "t", "h">>
         THEN [entry EXCEPT !.path = Some(StripSet(value, {Backtick}))]
    ELSE IF key = <<"p", "o", "r", "t", "s">>
         THEN SetPorts(entry, value, parse_port_range(value))
    ELSE IF key = <<"a", "l", "l", "o", "c", "a", "t", "e", "d">>
         THEN [entry EXCEPT !.allocated = Some(value),
                            !.allocated_dict = parse_allocated(value)]
    ELSE IF key = <<"s", "t", "a", "c", "k">> THEN [entry EXCEPT !.stack = Some(value)]
    ELSE IF key = <<"g", "i", "t", "h", "u", "b">> THEN [entry EXCEPT !.github = Some(value)]
    ELSE IF key = <<"s", "t", "a", "t", "u", "s">> THEN [entry EXCEPT !.status = Some(value)]
    ELSE IF key = <<"c", "o", "m", "m", "a", "n", "d">> THEN [entry EXCEPT !.command = Some(value)]
    ELSE entry

\* ApplyParts without the test of len(parts): the first two cells of any row
\* with two cells or more are taken
ApplyParts_NoCountCheck(entry, parts) ==
    IF Len(parts) < 2 THEN entry ELSE SetField(entry, Lower(parts[1]), parts[2])

\* ApplyParts without .lower(): the key is compared as written
ApplyParts_CaseSensitive(entry, parts) ==
    IF Len(parts) # 2 THEN entry ELSE SetField(entry, parts[1], parts[2])

\* if len(parts) == 2: key, value = parts[0].lower(), parts[1]
ApplyParts(entry, parts) ==
    IF Len(parts) # 2 THEN entry ELSE SetField(entry, Lower(parts[1]), parts[2])

\* the table-row branch of parse_entries applied to the open entry
ApplyRow(entry, line) == ApplyParts(entry, RowParts(line))

\* the while loop of parse_entries from line i (one-based) on; st holds the
\* locals entries, current_category and current_entry
RECURSIVE ParseLoop(_, _, _)
ParseLoop(lines, i, st) ==
    IF i > Len(lines) THEN st
    ELSE LET line == lines[i]
         IN IF IsSectionHeader(line)
            THEN IF IsStopSection(SectionName(line)) THEN st
                 ELSE IF IsKnownCategory(SectionName(line))
                      THEN ParseLoop(lines, i + 1,
                               [st EXCEPT !.current_category = Some(CategoryOf(SectionName(line)))])
                      ELSE ParseLoop(lines, i + 1, st)
            ELSE IF StartsWith(line, <<"#", "#", "#", " ">>) /\ st.current_category.some
            THEN ParseLoop(lines, i + 1,
                     [st EXCEPT
                        !.entries = IF st.current_entry.some
                                    THEN Append(st.entries, st.current_entry.v)
                                    ELSE st.entries,
                        !.current_entry = Some(NewEntry(EntryName(line),
                                                        st.current_category.v, i - 1))])
            ELSE IF st.current_entry.some /\ StartsWith(line, <<"|", " ">>)
            THEN ParseLoop(lines, i + 1,
                     [st EXCEPT !.current_entry = Some(ApplyRow(st.current_entry.v, line))])
            ELSE ParseLoop(lines, i + 1, st)

\* "Don't forget the last entry": the entries returned from the loop's locals
CloseLast(st) ==
    IF st.current_entry.some THEN Append(st.entries, st.current_entry.v) ELSE st.entries

\* parse_entries(content), content given as content.split('\n')
parse_entries(lines) ==
    CloseLast(ParseLoop(lines, 1,
                  [entries |-> <<>>, current_category |-> None, current_entry |-> None]))

---------------------------------------------------------------------------
(* catalog.py: load_catalog, get_all_entries, get_entry_by_name *)

\* "not content": the file is missing, or it is the empty string
NoContent(file) == ~file.exists \/ file.lines = <<<<>>>>

\* get_all_entries() on the file as it is
get_all_entries(file) == IF NoContent(file) THEN <<>> ELSE parse_entries(file.lines)

\* FindEntry with "entry = e" moved in front of the name test: when no name
\* matches, the last entry parsed is left in entry
FindEntry_KeepsLast(es, name) ==
    LET hits == {k \in 1..Len(es) : Lower(es[k].name) = Lower(name)}
    IN IF hits = {} THEN (IF Len(es) = 0 THEN None ELSE Some(es[Len(es)]))
       ELSE Some(es[CHOOSE a \in hits : \A b \in hits : a <= b])

\* FindEntry without .lower(): the names are compared as written
FindEntry_CaseSensitive(es, name) ==
    LET hits == {k \in 1..Len(es) : es[k].name = name}
    IN IF hits = {} THEN None
       ELSE Some(es[CHOOSE a \in hits : \A b \in hits : a <= b])

\* the loops of get_entry_by_name and update_entry_allocated: the first entry
\* with entry['name'].lower() == name.lower(), or None
FindEntry(es, name) ==
    LET hits == {k \in 1..Len(es) : Lower(es[k].name) = Lower(name)}
    IN IF hits = {} THEN None
       ELSE Some(es[CHOOSE a \in hits : \A b \in hits : a <= b])

get_entry_by_name(file, name) == FindEntry(get_all_entries(file), name)

---------------------------------------------------------------------------
(* catalog.py: get_all_allocated_ports *)

\* the dicts appended for one entry: one for each item of its allocated_dict
PortRecords(entry) ==
    [k \in 1..Len(entry.allocated_dict) |->
        [port |-> entry.allocated_dict[k][2], name |-> entry.allocated_dict[k][1],
         project |-> entry.name, category |-> entry.category]]

\* the list ports at the end of the loop over the entries
RECURSIVE AllPortRecords(_)
AllPortRecords(es) ==
    IF Len(es) = 0 THEN <<>>
    ELSE AllPortRecords(SubSeq(es, 1, Len(es) - 1)) \o PortRecords(es[Len(es)])

\* sorted(ports, key=lambda x: x['port']): stable, as SortedByPort
InsertLastRecord(rest, last) ==
    SubSeq(rest, 1, Cardinality({k \in 1..Len(rest) : rest[k].port <= last.port}))
        \o <<last>>
        \o SubSeq(rest, Cardinality({k \in 1..Len(rest) : rest[k].port <= last.port}) + 1,
                  Len(rest))

RECURSIVE SortedRecords(_)
SortedRecords(records) ==
    IF Len(records) = 0 THEN <<>>
    ELSE InsertLastRecord(SortedRecords(SubSeq(records, 1, Len(records) - 1)),
                          records[Len(records)])

\* the records collected in a dict keyed by the port: the first record of a
\* port is kept, the later ones are dropped
KeepNewPort(acc, record) ==
    IF \E k \in 1..Len(acc) : acc[k].port = record.port THEN acc ELSE Append(acc, record)

RECURSIVE FirstPerPort(_)
FirstPerPort(records) ==
    IF Len(records) = 0 THEN <<>>
    ELSE KeepNewPort(FirstPerPort(SubSeq(records, 1, Len(records) - 1)),
                     records[Len(records)])

get_all_allocated_ports_OnePerPort(file) ==
    SortedRecords(FirstPerPort(AllPortRecords(get_all_entries(file))))

\* get_all_allocated_ports() on the file as it is
get_all_allocated_ports(file) == SortedRecords(AllPortRecords(get_all_entries(file)))

---------------------------------------------------------------------------
(* catalog.py: update_entry_allocated *)

\* the for loop over the raw lines from line i (one-based) on; sc holds the
\* locals in_entry, allocated_line_idx, ports_line_idx and table_end_idx
\* (zero-based indices as in the code); reaching "break" returns sc
RECURSIVE ScanLoop(_, _, _, _)
ScanLoop(lines, name, i, sc) ==
    IF i > Len(lines) THEN sc
    ELSE LET line == lines[i]
         IN IF StartsWith(line, <<"#", "#", "#", " ">>) /\ Contains(line, name)
            THEN ScanLoop(lines, name, i + 1, [sc EXCEPT !.in_entry = TRUE])
            ELSE IF ~sc.in_entry THEN ScanLoop(lines, name, i + 1, sc)
            ELSE IF StartsWith(line, <<"#", "#", "#", " ">>) \/ StartsWith(line, <<"#", "#", " ">>) THEN sc
            ELSE ScanLoop(lines, name, i + 1,
                     [sc EXCEPT
                        !.allocated_line_idx =
                            IF StartsWith(line, <<"|", " ", "A", "l", "l", "o", "c", "a", "t", "e", "d", " ", "|">>)
                            THEN Some(i - 1) ELSE @,
                        !.ports_line_idx =
                            IF StartsWith(line, <<"|", " ", "P", "o", "r", "t", "s", " ", "|">>)
                            THEN Some(i - 1) ELSE @,
                        !.table_end_idx =
                            IF /\ StartsWith(line, <<"|">>)
                               /\ ~Contains(line, <<"P", "r", "o", "p", "e", "r", "t", "y">>)
                               /\ ~Contains(line, <<"-", "-", "-", "-">>)
                            THEN Some(i - 1) ELSE @])

ScanEntry(lines, name) ==
    ScanLoop(lines, name, 1,
             [in_entry |-> FALSE, allocated_line_idx |-> None,
              ports_line_idx |-> None, table_end_idx |-> None])

\* f"| Allocated | {allocated_str} |"
AllocatedRow(allocated_str) ==
    <<"|", " ", "A", "l", "l", "o", "c", "a", "t", "e", "d", " ", "|", " ">> \o allocated_str \o <<" ", "|">>

\* lines.insert(idx, row), idx zero-based
ListInsert(lines, idx, row) ==
    SubSeq(lines, 1, idx) \o <<row>> \o SubSeq(lines, idx + 1, Len(lines))

\* Rewritten with the two cases in the other order: the row goes in after
\* the Ports line whenever there is one
Rewritten_AfterPortsFirst(lines, sc, row) ==
    IF sc.ports_line_idx.some
    THEN [ok |-> TRUE, lines |-> ListInsert(lines, sc.ports_line_idx.v + 1, row)]
    ELSE IF sc.allocated_line_idx.some
    THEN [ok |-> TRUE, lines |-> [lines EXCEPT ![sc.allocated_line_idx.v + 1] = row]]
    ELSE [ok |-> FALSE, lines |-> <<>>]

\* lines 308-316: the row replaces the Allocated line found last, or goes in
\* after the Ports line found last, or the call returns False
Rewritten(lines, sc, row) ==
    IF sc.allocated_line_idx.some
    THEN [ok |-> TRUE, lines |-> [lines EXCEPT ![sc.allocated_line_idx.v + 1] = row]]
    ELSE IF sc.ports_line_idx.some
    THEN [ok |-> TRUE, lines |-> ListInsert(lines, sc.ports_line_idx.v + 1, row)]
    ELSE [ok |-> FALSE, lines |-> <<>>]

\* lines 278-316, entry being what the name search left (None: not found)
UpdatedFor(lines, entry, allocated_dict) ==
    IF ~entry.some THEN [ok |-> FALSE, lines |-> <<>>]
    ELSE Rewritten(lines, ScanEntry(lines, entry.v.name),
                   AllocatedRow(format_allocated(allocated_dict)))

\* update_entry_allocated from the content it loaded up to the text it is about
\* to write: [ok, lines]; ok = FALSE is "return False", with nothing to write
UpdatedContent(file, entry_name, allocated_dict) ==
    IF NoContent(file) THEN [ok |-> FALSE, lines |-> <<>>]
    ELSE UpdatedFor(file.lines, FindEntry(parse_entries(file.lines), entry_name),
                    allocated_dict)

---------------------------------------------------------------------------
(* The catalogs and arguments the specifications range over *)

\* the lines and names the catalogs and calls are made of
HeadWork == <<"#", "#", " ", "W", "O", "R", "K">>
HeadTools == <<"#", "#", " ", "T", "o", "o", "l", "s">>
HeadNotes == <<"#", "#", " ", "N", "o", "t", "e", "s">>
HeadQuickRef == <<"#", "#", " ", "Q", "u", "i", "c", "k", " ", "R", "e", "f", "e", "r", "e", "n", "c", "e">>
HeadQuickRefLower == <<"#", "#", " ", "q", "u", "i", "c", "k", " ", "r", "e", "f", "e", "r", "e", "n", "c", "e">>
HeadFormatRef == <<"#", "#", " ", "E", "n", "t", "r", "y", " ", "F", "o", "r", "m", "a", "t", " ", "R", "e", "f", "e", "r", "e", "n", "c", "e">>
HeadApp == <<"#", "#", "#", " ", "A", "p", "p">>
HeadMyApp == <<"#", "#", "#", " ", "M", "y", "A", "p", "p">>
RowPorts == <<"|", " ", "P", "o", "r", "t", "s", " ", "|", " ", "3", "0", "0", "0", "-", "3", "0", "0", "9", " ", "|">>
RowAllocated == <<"|", " ", "A", "l", "l", "o", "c", "a", "t", "e", "d", " ", "|", " ", "w", "e", "b", ":", "3", "0", "0", "0", " ", "|">>
RowAllocatedLower == <<"|", " ", "a", "l", "l", "o", "c", "a", "t", "e", "d", " ", "|", " ", "a", "p", "i", ":", "3", "0", "0", "1", " ", "|">>
NameApp == <<"A", "p", "p">>
NameMyApp == <<"M", "y", "A", "p", "p">>
NameAppLower == <<"a", "p", "p">>
NameZed == <<"Z", "e", "d">>
LabelWeb == <<"w", "e", "b">>
LabelApi == <<"a", "p", "i">>
HeadAppUpper == <<"#", "#", "#", " ", "A", "P", "P">>
RowAllocatedTwo == <<"|", " ", "A", "l", "l", "o", "c", "a", "t", "e", "d", " ", "|", " ", "a", "p", "i", ":", "3", "0", "0", "1", ",", " ", "d", "b", ":", "8", "0", " ", "|">>
NameAppUpper == <<"A", "P", "P">>
RowType == <<"|", " ", "T", "y", "p", "e", " ", "|", " ", "w", "e", "b", " ", "|">>
RowPath == <<"|", " ", "P", "a", "t", "h", " ", "|", " ", Backtick, "/", "w", Backtick, " ", "|">>
RowStack == <<"|", " ", "S", "t", "a", "c", "k", " ", "|", " ", "p", "y", " ", "|">>
RowGithub == <<"|", " ", "G", "i", "t", "H", "u", "b", " ", "|", " ", "g", "/", "r", " ", "|">>
RowStatus == <<"|", " ", "S", "T", "A", "T", "U", "S", " ", "|", " ", "a", "c", "t", "i", "v", "e", " ", "|">>
RowCommand == <<"|", " ", "C", "o", "m", "m", "a", "n", "d", " ", "|", " ", "r", "u", "n", " ", "|">>
RowOwner == <<"|", " ", "O", "w", "n", "e", "r", " ", "|", " ", "m", "e", " ", "|">>
RowThreeCells == <<"|", " ", "P", "o", "r", "t", "s", " ", "|", " ", "1", " ", "|", " ", "2", " ", "|">>
RowBadPorts == <<"|", " ", "P", "o", "r", "t", "s", " ", "|", " ", "s", "o", "o", "n", " ", "|">>
RowBadAllocated == <<"|", " ", "A", "l", "l", "o", "c", "a", "t", "e", "d", " ", "|", " ", "w", "e", "b", " ", "|">>

\* the longest catalog, in lines
MaxLines == 4

\* all sequences of one to n lines over a set of lines
LinesUpTo(pool, n) == UNION {[1..k -> pool] : k \in 1..n}

File(lines) == [exists |-> TRUE, lines |-> lines]
MissingFile == [exists |-> FALSE, lines |-> <<>>]
EmptyFile == File(<<<<>>>>)

NoOp(file) == [kind |-> "none", name |-> <<>>, alloc |-> <<>>, ok |-> FALSE, before |-> file]
NoProcs == <<>>

UpdateLinePool ==
    { HeadWork,
      HeadQuickRef,
      HeadApp,
      HeadMyApp,
      RowPorts,
      RowAllocated,
      RowAllocatedLower }

EntryNameArgs ==
    { NameApp, NameMyApp, NameAppLower, NameZed }

AllocArgs ==
    { <<>>,
      << <<LabelWeb, 3000>> >>,
      << <<LabelApi, 3001>>, <<LabelWeb, 3000>> >> }

---------------------------------------------------------------------------
(* Spec: one call of update_entry_allocated on any catalog *)

Init ==
    /\ catalog \in {MissingFile, EmptyFile}
                   \cup {File(d) : d \in LinesUpTo(UpdateLinePool, MaxLines)}
    /\ op = NoOp(catalog)
    /\ entries = <<>>
    /\ procs = NoProcs
    /\ overlapped = FALSE

\* the end of update_entry_allocated: write_text(new_content) and return True,
\* or return False with the file untouched
Finish(r, entry_name, allocated_dict) ==
    /\ catalog' = IF r.ok THEN File(r.lines) ELSE catalog
    /\ op' = [kind |-> "update", name |-> entry_name, alloc |-> allocated_dict,
              ok |-> r.ok, before |-> catalog]

\* update_entry_allocated(entry_name, allocated_dict): load_catalog, the
\* rewrite, and write_text when it did not return False before
update_entry_allocated(entry_name, allocated_dict) ==
    /\ op.kind = "none"
    /\ Finish(UpdatedContent(catalog, entry_name, allocated_dict), entry_name, allocated_dict)
    /\ UNCHANGED <<entries, procs, overlapped>>

Next ==
    \E entry_name \in EntryNameArgs, allocated_dict \in AllocArgs :
        update_entry_allocated(entry_name, allocated_dict)

Spec == Init /\ [][Next]_vars

---------------------------------------------------------------------------
(* What the claims about update_entry_allocated speak of *)

\* the lines of the catalog before and after the call that ran last
OldLines == op.before.lines
NewLines == catalog.lines
OldEntries == get_all_entries(op.before)

Updated == op.kind = "update"
UpdateSucceeded == op.kind = "update" /\ op.ok

\* the entries of the old catalog whose name equals the requested one,
\* compared case-insensitively; the first of them is the call's entry X
Matching == {k \in 1..Len(OldEntries) : Lower(OldEntries[k].name) = Lower(op.name)}
TargetIdx == CHOOSE a \in Matching : \A b \in Matching : a <= b
Target == OldEntries[TargetIdx]

IsHeading(line) ==
    StartsWith(line, <<"#", "#", "#", " ">>) \/ StartsWith(line, <<"#", "#", " ">>)

\* X's span in the old catalog: from its heading (one-based SpanStart) up to,
\* not including, the next heading or the end of the document (SpanEnd)
SpanStart == Target.line_start + 1
SpanEnd ==
    LET next == {k \in (SpanStart + 1)..Len(OldLines) : IsHeading(OldLines[k])}
    IN IF next = {} THEN Len(OldLines) + 1
       ELSE CHOOSE a \in next : \A b \in next : a <= b
Span == SpanStart..(SpanEnd - 1)

SpanAllocatedRows ==
    {k \in Span : StartsWith(OldLines[k], <<"|", " ", "A", "l", "l", "o", "c", "a", "t", "e", "d", " ", "|">>)}
SpanPortsRows ==
    {k \in Span : StartsWith(OldLines[k], <<"|", " ", "P", "o", "r", "t", "s", " ", "|">>)}

\* C1: a successful update of X changes no line outside X's span: the lines
\* before the span and the lines from the span's end on are the same before
\* and after the call.
C1_UpdateIsolation ==
    UpdateSucceeded =>
        /\ SubSeq(NewLines, 1, SpanStart - 1) = SubSeq(OldLines, 1, SpanStart - 1)
        /\ SubSeq(NewLines, SpanEnd + Len(NewLines) - Len(OldLines), Len(NewLines))
              = SubSeq(OldLines, SpanEnd, Len(OldLines))

\* update_entry_allocated('App', ...) on "## WORK / ### App / ### MyApp /
\* | Allocated | web:3000 |" returned True and rewrote the row of MyApp
C1_Failure ==
    /\ UpdateSucceeded /\ op.name = NameApp
    /\ op.alloc = << <<LabelApi, 3001>>, <<LabelWeb, 3000>> >>
    /\ OldLines = <<HeadWork, HeadApp, HeadMyApp, RowAllocated>>
    /\ SubSeq(NewLines, 1, 3) = SubSeq(OldLines, 1, 3)
    /\ NewLines[4] # OldLines[4]

\* C2: after update_entry_allocated(X, m) returned True, parsing the stored
\* catalog gives the entry matched for X an allocated_dict equal to m.
C2_UpdateThenParse ==
    UpdateSucceeded =>
        LET now == get_all_entries(catalog)
            hits == {k \in 1..Len(now) : Lower(now[k].name) = Lower(op.name)}
        IN /\ hits # {}
           /\ DictEq(now[CHOOSE a \in hits : \A b \in hits : a <= b].allocated_dict,
                     op.alloc)

\* update_entry_allocated('App', {'web': 3000}) on an entry with the row
\* "| allocated | api:3001 |" returned True, and App still parses to api:3001
C2_Failure ==
    /\ UpdateSucceeded /\ op.name = NameApp
    /\ op.alloc = << <<LabelWeb, 3000>> >>
    /\ OldLines = <<HeadWork, HeadApp, RowPorts, RowAllocatedLower>>
    /\ NewLines = <<HeadWork, HeadApp, RowPorts, RowAllocated, RowAllocatedLower>>
    /\ get_all_entries(catalog)[1].allocated_dict = << <<LabelApi, 3001>> >>

\* an entry with the fields the update may change blanked: line_start, a
\* position and not content, for every entry, and allocated and allocated_dict
\* for X
Unrelated(e, isTarget) ==
    [e EXCEPT !.line_start = 0,
              !.allocated = IF isTarget THEN None ELSE @,
              !.allocated_dict = IF isTarget THEN <<>> ELSE @]

\* C3: after a successful update of X the catalog parses to the same sequence
\* of entries, and no field of any entry other than X's allocated and
\* allocated_dict has changed.
C3_FormatPreservation ==
    UpdateSucceeded =>
        LET now == get_all_entries(catalog)
        IN /\ Len(now) = Len(OldEntries)
           /\ \A k \in 1..Len(OldEntries) :
                 Unrelated(now[k], k = TargetIdx) = Unrelated(OldEntries[k], k = TargetIdx)

\* update_entry_allocated('App', {}) returned True and emptied the
\* allocated_dict of MyApp, the second entry
C3_Failure ==
    /\ UpdateSucceeded /\ op.name = NameApp /\ op.alloc = <<>>
    /\ OldLines = <<HeadWork, HeadApp, HeadMyApp, RowAllocated>>
    /\ OldEntries[2].name = NameMyApp
    /\ OldEntries[2].allocated_dict = << <<LabelWeb, 3000>> >>
    /\ get_all_entries(catalog)[2].allocated_dict = <<>>

\* C4: when the catalog is missing or empty, or no parsed entry has the
\* requested name (case-insensitively), update_entry_allocated returns False
\* and the catalog is what it was.
C4_NotFoundSafety ==
    (Updated /\ Matching = {}) => (~op.ok /\ catalog = op.before)

C4_Witness ==
    Updated /\ Len(OldEntries) > 0 /\ Matching = {} /\ ~op.ok

\* C5: when X is found and its span holds neither an Allocated row nor a Ports
\* row, update_entry_allocated returns False and the catalog is what it was.
C5_NoInsertionPoint ==
    (Updated /\ Matching # {} /\ SpanAllocatedRows = {} /\ SpanPortsRows = {})
        => (~op.ok /\ catalog = op.before)

\* update_entry_allocated('App', {'web': 3000}) on "## WORK / ### App /
\* ### MyApp / | Ports | 3000-3009 |" returned True and put the new row behind
\* the Ports row of MyApp
C5_Failure ==
    /\ UpdateSucceeded /\ op.name = NameApp
    /\ op.alloc = << <<LabelWeb, 3000>> >>
    /\ OldLines = <<HeadWork, HeadApp, HeadMyApp, RowPorts>>
    /\ NewLines = <<HeadWork, HeadApp, HeadMyApp, RowPorts, RowAllocated>>

\* C6: on success the catalog differs from the old one by one line: the
\* Allocated row of X's span replaced by the new row or, when the span has
\* none, the new row inserted directly after the Ports row of X's span.
C6_ReplaceOrInsert ==
    UpdateSucceeded =>
        LET row == AllocatedRow(format_allocated(op.alloc))
        IN IF SpanAllocatedRows # {}
           THEN \E k \in SpanAllocatedRows : NewLines = [OldLines EXCEPT ![k] = row]
           ELSE \E k \in SpanPortsRows : NewLines = ListInsert(OldLines, k, row)

\* update_entry_allocated('App', {}) on "## WORK / ### MyApp /
\* | Allocated | web:3000 | / ### App" returned True and replaced the row of
\* MyApp, App's span being its heading alone
C6_Failure ==
    /\ UpdateSucceeded /\ op.name = NameApp /\ op.alloc = <<>>
    /\ OldLines = <<HeadWork, HeadMyApp, RowAllocated, HeadApp>>
    /\ Span = {4}
    /\ NewLines = <<HeadWork, HeadMyApp, AllocatedRow(<<>>), HeadApp>>

\* the entries after X in the old catalog that carry the very name of X
LaterDuplicates ==
    {k \in Matching : k > TargetIdx /\ OldEntries[k].name = Target.name}

\* the line after the block that starts at line start: the next heading, or
\* the end of the document
BlockEnd(start) ==
    LET next == {k \in (start + 1)..Len(OldLines) : IsHeading(OldLines[k])}
    IN IF next = {} THEN Len(OldLines) + 1
       ELSE CHOOSE a \in next : \A b \in next : a <= b

\* by how many lines the call made the document longer
Grew == Len(NewLines) - Len(OldLines)

\* C24: when the name of X is the name of a later entry too, a successful
\* update of X leaves the lines of every later entry of that name as they
\* were: the change is made in the first occurrence, the one that
\* get_entry_by_name returns.
C24_DuplicateNames ==
    UpdateSucceeded =>
        \A k \in LaterDuplicates :
            SubSeq(NewLines, OldEntries[k].line_start + 1 + Grew,
                   BlockEnd(OldEntries[k].line_start + 1) - 1 + Grew)
                = SubSeq(OldLines, OldEntries[k].line_start + 1,
                         BlockEnd(OldEntries[k].line_start + 1) - 1)

\* update_entry_allocated('App', ...) on "## WORK / ### App / ### App /
\* | Allocated | web:3000 |" returned True and rewrote the row of the second
\* App, while get_entry_by_name('App') is the first one
C24_Failure ==
    /\ UpdateSucceeded /\ op.name = NameApp
    /\ op.alloc = << <<LabelApi, 3001>>, <<LabelWeb, 3000>> >>
    /\ OldLines = <<HeadWork, HeadApp, HeadApp, RowAllocated>>
    /\ get_entry_by_name(op.before, NameApp).v.line_start = 1
    /\ NewLines = <<HeadWork, HeadApp, HeadApp, <<"|", " ", "A", "l", "l", "o", "c", "a", "t", "e", "d", " ", "|", " ", "w", "e", "b", ":", "3", "0", "0", "0", ",", " ", "a", "p", "i", ":", "3", "0", "0", "1", " ", "|">>>>

---------------------------------------------------------------------------
(* SpecTwice: update_entry_allocated called with some arguments, and then  *)
(* called once more with the same arguments                                *)

TwiceLinePool ==
    { HeadWork,
      HeadApp,
      HeadMyApp,
      RowPorts,
      RowAllocated,
      RowAllocatedLower }

TwiceNameArgs == { NameApp, NameAppLower, NameZed }

InitTwice ==
    /\ catalog \in {MissingFile, EmptyFile}
                   \cup {File(d) : d \in LinesUpTo(TwiceLinePool, MaxLines)}
    /\ op = NoOp(catalog)
    /\ entries = <<>>
    /\ procs = NoProcs
    /\ overlapped = FALSE

\* the end of the second call; first and first_ok keep the file the first
\* call started from and what the first call returned
FinishAgain(r) ==
    /\ catalog' = IF r.ok THEN File(r.lines) ELSE catalog
    /\ op' = [kind |-> "update_again", name |-> op.name, alloc |-> op.alloc,
              ok |-> r.ok, before |-> catalog,
              first |-> op.before, first_ok |-> op.ok]

\* the second update_entry_allocated(entry_name, allocated_dict)
update_entry_allocated_again ==
    /\ op.kind = "update"
    /\ FinishAgain(UpdatedContent(catalog, op.name, op.alloc))
    /\ UNCHANGED <<entries, procs, overlapped>>

NextTwice ==
    \/ \E entry_name \in TwiceNameArgs, allocated_dict \in AllocArgs :
          update_entry_allocated(entry_name, allocated_dict)
    \/ update_entry_allocated_again

SpecTwice == InitTwice /\ [][NextTwice]_vars

---------------------------------------------------------------------------
(* What the claim about the repeated update speaks of *)

UpdatedTwice == op.kind = "update_again"

\* C27: update_entry_allocated(X, m) called a second time with the same
\* arguments returns what the first call returned and leaves the catalog
\* exactly as the first call left it.
C27_UpdateIdempotence ==
    UpdatedTwice => /\ catalog = op.before
                    /\ op.ok = op.first_ok

\* the first call put a new row in after the Ports line, the second call
\* found that row and wrote the same text over it
C27_Witness ==
    /\ UpdatedTwice /\ op.ok /\ op.first_ok
    /\ op.name = NameApp
    /\ op.alloc = << <<LabelApi, 3001>>, <<LabelWeb, 3000>> >>
    /\ op.first.lines = <<HeadWork, HeadApp, RowPorts>>
    /\ op.before.lines = <<HeadWork, HeadApp, RowPorts, <<"|", " ", "A", "l", "l", "o", "c", "a", "t", "e", "d", " ", "|", " ", "w", "e", "b", ":", "3", "0", "0", "0", ",", " ", "a", "p", "i", ":", "3", "0", "0", "1", " ", "|">>>>
    /\ catalog = op.before

---------------------------------------------------------------------------
(* SpecParse: one call of get_all_entries on any catalog *)

ParseLinePool ==
    { HeadWork,
      HeadTools,
      HeadNotes,
      HeadQuickRef,
      HeadQuickRefLower,
      HeadFormatRef,
      HeadApp,
      RowPorts }

InitParse ==
    /\ catalog \in {MissingFile, EmptyFile}
                   \cup {File(d) : d \in LinesUpTo(ParseLinePool, MaxLines)}
    /\ op = NoOp(catalog)
    /\ entries = <<>>
    /\ procs = NoProcs
    /\ overlapped = FALSE

\* a read-only command: entries = get_all_entries()
GetAllEntries ==
    /\ op.kind = "none"
    /\ entries' = get_all_entries(catalog)
    /\ op' = [op EXCEPT !.kind = "parse"]
    /\ UNCHANGED <<catalog, procs, overlapped>>

NextParse == GetAllEntries

SpecParse == InitParse /\ [][NextParse]_vars

---------------------------------------------------------------------------
(* What the claims about parse_entries speak of *)

Parsed == op.kind = "parse" /\ ~NoContent(catalog)

LastOf(set) == CHOOSE a \in set : \A b \in set : a >= b

\* the "## " headings whose trimmed text is a stop marker, letter for letter
\* and in any letter case
StopLines ==
    {k \in 1..Len(catalog.lines) :
        /\ StartsWith(catalog.lines[k], <<"#", "#", " ">>)
        /\ \E n \in 1..Len(stop_sections) : SectionName(catalog.lines[k]) = stop_sections[n]}
StopLinesAnyCase ==
    {k \in 1..Len(catalog.lines) :
        /\ StartsWith(catalog.lines[k], <<"#", "#", " ">>)
        /\ \E n \in 1..Len(stop_sections) :
              Lower(SectionName(catalog.lines[k])) = Lower(stop_sections[n])}

\* the entries returned all start before line k, and they are the entries of
\* the document cut off in front of line k
ScanEndsAt(k) ==
    /\ \A n \in 1..Len(entries) : entries[n].line_start + 1 < k
    /\ entries = parse_entries(SubSeq(catalog.lines, 1, k - 1))

\* C7: no entry whose heading comes after a "## Quick Reference" or
\* "## Entry Format Reference" heading is returned, and no row after that
\* heading changes a returned entry: the result is that of the document cut
\* off at the first stop heading.
C7_StopMarkerContainment ==
    (Parsed /\ StopLines # {}) => ScanEndsAt(FirstOf(StopLines))

C7_Witness ==
    /\ Parsed /\ StopLines # {} /\ Len(entries) > 0
    /\ \E k \in (FirstOf(StopLines) + 1)..Len(catalog.lines) :
          StartsWith(catalog.lines[k], <<"#", "#", "#", " ">>)

\* C8: a "## " heading whose trimmed text is a stop marker in any letter case
\* ends the scan as "## Quick Reference" does.
C8_StopMarkerAnyCase ==
    (Parsed /\ StopLinesAnyCase # {}) => ScanEndsAt(FirstOf(StopLinesAnyCase))

\* "## WORK / ## quick reference / ### App / | Ports | 3000-3009 |" parses to
\* the entry App, which stands behind the lower-case stop heading
C8_Failure ==
    /\ Parsed
    /\ catalog.lines = <<HeadWork, HeadQuickRefLower, HeadApp, RowPorts>>
    /\ Len(entries) = 1
    /\ entries[1].line_start = 2
    /\ entries[1].ports = Some(<<"3", "0", "0", "0", "-", "3", "0", "0", "9">>)

\* the "## " headings in front of line h that name a configured category,
\* in any letter case
CategoryLinesBefore(h) ==
    {k \in 1..(h - 1) :
        /\ StartsWith(catalog.lines[k], <<"#", "#", " ">>)
        /\ \E n \in 1..Len(category_names) :
              Upper(SectionName(catalog.lines[k])) = Upper(category_names[n])}

\* C10: every returned entry was opened by a "### " heading and has the
\* upper-cased text of the nearest "## " heading in front of it that names a
\* configured category; "## " headings that name none change nothing.
C10_CategoryAssignment ==
    Parsed =>
        \A n \in 1..Len(entries) :
            /\ StartsWith(catalog.lines[entries[n].line_start + 1], <<"#", "#", "#", " ">>)
            /\ CategoryLinesBefore(entries[n].line_start + 1) # {}
            /\ entries[n].category =
                  Upper(SectionName(catalog.lines[
                      LastOf(CategoryLinesBefore(entries[n].line_start + 1))]))

C10_Witness ==
    /\ Parsed
    /\ \E n \in 1..Len(entries) :
          /\ entries[n].category = <<"T", "O", "O", "L", "S">>
          /\ entries[n].line_start = 3
          /\ catalog.lines[1] = HeadWork
          /\ catalog.lines[3] = HeadNotes

\* the "## " headings of the whole document that name a configured category
CategoryLines == CategoryLinesBefore(Len(catalog.lines) + 1)

\* the table rows between the heading of the n-th returned entry and the
\* heading of the next one (the end of the document for the last)
EntryRows(n) ==
    {k \in (entries[n].line_start + 2)..
              (IF n < Len(entries) THEN entries[n + 1].line_start ELSE Len(catalog.lines)) :
        StartsWith(catalog.lines[k], <<"|", " ">>)}

\* every optional field unset and no allocation
Unset(e) ==
    /\ e.type = None /\ e.path = None /\ e.ports = None /\ e.allocated = None
    /\ e.stack = None /\ e.github = None /\ e.status = None /\ e.description = None
    /\ e.base_port = None /\ e.port_range = None /\ e.command = None
    /\ e.allocated_dict = <<>>

\* C11: a document without a category heading parses to no entry; every
\* returned entry has a category heading in front of its "### " heading and
\* the trimmed heading text as its name; an entry without table rows has
\* every optional field unset and an empty allocation map; and the heading
\* of the next entry closes it: it is what the document cut off in front of
\* that heading parses to.
C11_EntriesOpenInCategory ==
    Parsed =>
        /\ (CategoryLines = {} => entries = <<>>)
        /\ \A n \in 1..Len(entries) :
              /\ CategoryLinesBefore(entries[n].line_start + 1) # {}
              /\ entries[n].name = EntryName(catalog.lines[entries[n].line_start + 1])
              /\ (EntryRows(n) = {} => Unset(entries[n]))
              /\ (n < Len(entries) =>
                    entries[n] =
                       parse_entries(SubSeq(catalog.lines, 1, entries[n + 1].line_start))[n])

C11_Witness ==
    /\ Parsed
    /\ StartsWith(catalog.lines[1], <<"#", "#", "#", " ">>)
    /\ Len(entries) = 2
    /\ entries[1].line_start = 2
    /\ Unset(entries[1])

\* the "### " headings the scan accepts: a category heading stands in front
\* of them and no "## Quick Reference" / "## Entry Format Reference" heading
AcceptedHeadings ==
    {k \in 1..Len(catalog.lines) :
        /\ StartsWith(catalog.lines[k], <<"#", "#", "#", " ">>)
        /\ CategoryLinesBefore(k) # {}
        /\ (StopLines = {} \/ k < FirstOf(StopLines))}

\* C12: the returned entries are the accepted "### " headings, one entry for
\* each and none left out, in the order of the document: line_start is the
\* zero-based index of the entry's heading and grows strictly along the
\* sequence.
C12_DocumentOrder ==
    Parsed =>
        /\ Len(entries) = Cardinality(AcceptedHeadings)
        /\ \A n \in 1..Len(entries) : (entries[n].line_start + 1) \in AcceptedHeadings
        /\ \A n \in 1..Len(entries) :
              entries[n].name = EntryName(catalog.lines[entries[n].line_start + 1])
        /\ \A n, m \in 1..Len(entries) :
              n < m => entries[n].line_start < entries[m].line_start

C12_Witness ==
    /\ Parsed
    /\ Len(entries) = 3
    /\ entries[1].line_start = 1 /\ entries[2].line_start = 2 /\ entries[3].line_start = 3

---------------------------------------------------------------------------
(* SpecRows: one call of get_all_entries on a catalog whose first line is *)
(* "## WORK", the lines after it being headings and table rows            *)

RowLinePool ==
    { HeadApp, HeadNotes,
      RowType, RowPath, RowPorts, RowAllocated, RowStack, RowGithub, RowStatus,
      RowCommand, RowOwner, RowThreeCells, RowBadPorts, RowBadAllocated }

InitRows ==
    /\ catalog \in {File(<<HeadWork>> \o d) : d \in LinesUpTo(RowLinePool, MaxLines - 1)}
    /\ op = NoOp(catalog)
    /\ entries = <<>>
    /\ procs = NoProcs
    /\ overlapped = FALSE

SpecRows == InitRows /\ [][NextParse]_vars

---------------------------------------------------------------------------
(* What the claims about table rows speak of *)

IsRow(line) == StartsWith(line, <<"|", " ">>)
CellCount(line) == Len(Split(line, "|")) - 2
RowKey(line) == Lower(Strip(Split(line, "|")[2]))
RowValue(line) == Strip(Split(line, "|")[3])

KeyType == <<"t", "y", "p", "e">>
KeyPath == <<"p", "a", "t", "h">>
KeyPorts == <<"p", "o", "r", "t", "s">>
KeyAllocated == <<"a", "l", "l", "o", "c", "a", "t", "e", "d">>
KeyStack == <<"s", "t", "a", "c", "k">>
KeyGithub == <<"g", "i", "t", "h", "u", "b">>
KeyStatus == <<"s", "t", "a", "t", "u", "s">>
KeyCommand == <<"c", "o", "m", "m", "a", "n", "d">>

\* a "## " heading that is neither a stop marker nor a category, a table row
\* without exactly two cells, or a line that is no heading and no row
IsUnknownHeading(line) ==
    /\ StartsWith(line, <<"#", "#", " ">>)
    /\ \A n \in 1..Len(stop_sections) : SectionName(line) # stop_sections[n]
    /\ \A n \in 1..Len(category_names) : Upper(SectionName(line)) # Upper(category_names[n])
IsMalformedRow(line) == IsRow(line) /\ CellCount(line) # 2
IsSkipped(line) == IsUnknownHeading(line) \/ IsMalformedRow(line)

\* a Ports row whose value gives no range, an Allocated row whose value
\* gives no allocation
IsUnparseableRow(line) ==
    /\ IsRow(line) /\ CellCount(line) = 2
    /\ \/ RowKey(line) = KeyPorts /\ parse_port_range(RowValue(line)) = <<None, None>>
       \/ RowKey(line) = KeyAllocated /\ parse_allocated(RowValue(line)) = <<>>

NotSkipped(line) == ~IsSkipped(line)
NotUnparseable(line) == ~IsUnparseableRow(line)

\* the entries without the place of their headings, and without what their
\* Ports and Allocated rows set
NoLineStart(es) == [n \in 1..Len(es) |-> [es[n] EXCEPT !.line_start = 0]]
NoValues(es) ==
    [n \in 1..Len(es) |->
        [es[n] EXCEPT !.line_start = 0, !.ports = None, !.base_port = None,
                      !.port_range = None, !.allocated = None, !.allocated_dict = <<>>]]

\* C13: parse_entries gives a sequence for every document, and the lines it
\* skips leave the rest as it is: without the unknown headings and the rows
\* that have not two cells the document parses to the same entries (the
\* place of the headings apart), and without the Ports and Allocated rows
\* whose value does not parse it parses to the same entries but for the
\* Ports and Allocated fields.
C13_ParsingTotal ==
    Parsed =>
        /\ NoLineStart(entries) =
              NoLineStart(parse_entries(SelectSeq(catalog.lines, NotSkipped)))
        /\ NoValues(entries) =
              NoValues(parse_entries(SelectSeq(catalog.lines, NotUnparseable)))

C13_Witness ==
    /\ Parsed
    /\ catalog.lines = <<HeadWork, HeadApp, RowThreeCells, RowType>>
    /\ Len(entries) = 1
    /\ entries[1].ports = None
    /\ entries[1].type = Some(<<"w", "e", "b">>)

\* the document in front of its last line, what it parses to, and whether
\* the scan of the whole document reaches the last line with an entry open
LastLine == catalog.lines[Len(catalog.lines)]
BeforeLast == parse_entries(SubSeq(catalog.lines, 1, Len(catalog.lines) - 1))
OpenAtLast == Len(BeforeLast) > 0 /\ StopLines = {}
EndsWithRow == Parsed /\ IsRow(LastLine) /\ CellCount(LastLine) = 2

ReplaceLast(es, e) == [es EXCEPT ![Len(es)] = e]

\* what a row with one of the seven keys sets in the entry
SevenKeys(e, key, value) ==
    IF key = KeyType THEN [e EXCEPT !.type = Some(value)]
    ELSE IF key = KeyPath THEN [e EXCEPT !.path = Some(StripSet(value, {Backtick}))]
    ELSE IF key = KeyPorts
         THEN [e EXCEPT !.ports = Some(value),
                        !.base_port = parse_port_range(value)[1],
                        !.port_range = parse_port_range(value)[2]]
    ELSE IF key = KeyAllocated
         THEN [e EXCEPT !.allocated = Some(value), !.allocated_dict = parse_allocated(value)]
    ELSE IF key = KeyStack THEN [e EXCEPT !.stack = Some(value)]
    ELSE IF key = KeyGithub THEN [e EXCEPT !.github = Some(value)]
    ELSE IF key = KeyStatus THEN [e EXCEPT !.status = Some(value)]
    ELSE e

\* the seven keys and 'command'
EightKeys(e, key, value) ==
    IF key = KeyCommand THEN [e EXCEPT !.command = Some(value)]
    ELSE SevenKeys(e, key, value)

\* C14 as stated: a last line that is a two-cell row sets, in the entry open
\* there, the field its key names among type, path, ports, allocated, stack,
\* github and status (the key in any letter case) and nothing else; with any
\* other key, or with no entry open, the entries are those of the document
\* without the row.
C14_TableRows_SevenKeys ==
    EndsWithRow =>
        entries = IF OpenAtLast
                  THEN ReplaceLast(BeforeLast,
                           SevenKeys(BeforeLast[Len(BeforeLast)], RowKey(LastLine),
                                     RowValue(LastLine)))
                  ELSE BeforeLast

\* C14 amended: the same with 'command' as the eighth key, which sets the
\* field command and nothing else.
C14_TableRows ==
    EndsWithRow =>
        entries = IF OpenAtLast
                  THEN ReplaceLast(BeforeLast,
                           EightKeys(BeforeLast[Len(BeforeLast)], RowKey(LastLine),
                                     RowValue(LastLine)))
                  ELSE BeforeLast

C14_Witness ==
    /\ Parsed
    /\ catalog.lines = <<HeadWork, HeadApp, RowPath, RowStatus>>
    /\ entries[1].path = Some(<<"/", "w">>)
    /\ entries[1].status = Some(<<"a", "c", "t", "i", "v", "e">>)
    /\ BeforeLast[1].status = None

---------------------------------------------------------------------------
(* SpecValues: one call of parse_port_range, parse_allocated or            *)
(* format_allocated, and format_allocated and parse_allocated applied to   *)
(* what the other returned                                                 *)

TextRange == <<"3", "0", "0", "0", "-", "3", "0", "0", "9">>
TextSingle == <<"3", "0", "0", "5">>
TextAnnotated == <<"3", "0", "0", "0", "-", "3", "0", "0", "9", " ", "(", "F", "r", "o", "n", "t", "e", "n", "d", ":", " ", "3", "0", "0", "0", ")">>
TextThreeParts == <<"3", "0", "0", "0", "-", "3", "0", "0", "9", "-", "3", "0", "2", "0">>
PieceWeb == <<"w", "e", "b", ":", "3", "0", "0", "0">>
PieceApi == <<"a", "p", "i", ":", "3", "0", "0", "1">>
PieceApiSamePort == <<"a", "p", "i", ":", "3", "0", "0", "0">>
PiecePadded == <<" ", "d", "b", " ", ":", " ", "8", "0", " ">>
PieceNoColon == <<"w", "e", "b">>
PieceBadPort == <<"w", "e", "b", ":", "x">>
PieceTwoColons == <<"a", ":", "b", ":", "1">>
LabelDb == <<"d", "b">>
LabelPadded == <<" ", "d", "b">>

MaxChars == 4
MaxPairs == 3

\* every text of up to n characters of chars
TextsUpTo(chars, n) == UNION {[1..k -> chars] : k \in 0..n}

PortChars == {"1", "2", "-", "+", "_", " ", "(", ")", "x"}
PortTexts ==
    TextsUpTo(PortChars, MaxChars)
        \cup {TextRange, TextSingle, TextAnnotated, TextThreeParts}

\* the texts of up to MaxPairs pieces with "," between them, and short texts
PiecePool ==
    {PieceWeb, PieceApi, PieceApiSamePort, PiecePadded, PieceNoColon, PieceBadPort,
     PieceTwoColons, <<>>}
AllocChars == {"a", ":", ",", "1", " "}
AllocTexts ==
    {Join(pieces, <<",">>) : pieces \in LinesUpTo(PiecePool, MaxPairs)}
        \cup TextsUpTo(AllocChars, MaxChars)

\* the dicts of up to MaxPairs items, in every order of insertion
DictLabels == {LabelWeb, LabelApi, LabelPadded}
DictPorts == {80, 3000, 3001}
AllocDicts ==
    {d \in UNION {[1..k -> DictLabels \X DictPorts] : k \in 0..MaxPairs} :
        \A i, j \in 1..Len(d) : i # j => d[i][1] # d[j][1]}

Call(fn, arg) == [kind |-> "none", fn |-> fn, arg |-> arg, ret |-> <<>>, then |-> <<>>]

InitValues ==
    /\ catalog = MissingFile
    /\ \/ \E t \in PortTexts : op = Call("parse_port_range", t)
       \/ \E t \in AllocTexts : op = Call("parse_allocated", t)
       \/ \E d \in AllocDicts : op = Call("format_allocated", d)
    /\ entries = <<>>
    /\ procs = NoProcs
    /\ overlapped = FALSE

ParsePortRange ==
    /\ op.kind = "none" /\ op.fn = "parse_port_range"
    /\ op' = [op EXCEPT !.kind = "returned", !.ret = parse_port_range(op.arg)]
    /\ UNCHANGED <<catalog, entries, procs, overlapped>>

ParseAllocated ==
    /\ op.kind = "none" /\ op.fn = "parse_allocated"
    /\ op' = [op EXCEPT !.kind = "returned", !.ret = parse_allocated(op.arg)]
    /\ UNCHANGED <<catalog, entries, procs, overlapped>>

FormatAllocated ==
    /\ op.kind = "none" /\ op.fn = "format_allocated"
    /\ op' = [op EXCEPT !.kind = "returned", !.ret = format_allocated(op.arg)]
    /\ UNCHANGED <<catalog, entries, procs, overlapped>>

\* parse_allocated(format_allocated(m))
ParseFormatted ==
    /\ op.kind = "returned" /\ op.fn = "format_allocated"
    /\ op' = [op EXCEPT !.kind = "again", !.then = parse_allocated(op.ret)]
    /\ UNCHANGED <<catalog, entries, procs, overlapped>>

\* format_allocated(parse_allocated(s))
FormatParsed ==
    /\ op.kind = "returned" /\ op.fn = "parse_allocated"
    /\ op' = [op EXCEPT !.kind = "again", !.then = format_allocated(op.ret)]
    /\ UNCHANGED <<catalog, entries, procs, overlapped>>

NextValues ==
    \/ ParsePortRange
    \/ ParseAllocated
    \/ FormatAllocated
    \/ ParseFormatted
    \/ FormatParsed

SpecValues == InitValues /\ [][NextValues]_vars

---------------------------------------------------------------------------
(* What the claims about the Ports and Allocated values speak of *)

Returned(fn) == op.kind # "none" /\ op.fn = fn

IsDigits(t) == Len(t) > 0 /\ \A k \in 1..Len(t) : IsDigit(t[k])

\* nothing, or "(...)" with at least one character inside and whitespace or
\* nothing in front
IsAnnotation(t) ==
    \/ t = <<>>
    \/ \E j \in 1..Len(t) :
          /\ \A i \in 1..(j - 1) : IsSpace(t[i])
          /\ t[j] = "(" /\ t[Len(t)] = ")" /\ Len(t) >= j + 2
          /\ \A i \in (j + 1)..(Len(t) - 1) : t[i] # ")"

\* where the argument can be cut into a value and its annotation
Cores == {k \in 0..Len(op.arg) : IsAnnotation(SubSeq(op.arg, k + 1, Len(op.arg)))}

StartEnd(start, end) == <<Some(start), Some(end - start + 1)>>

\* C15: in front of a parenthesized annotation, or alone, digits p parse to
\* (p, 10) and digits start, "-", digits end parse to (start, end - start + 1);
\* "3000-3009" gives (3000, 10), "3005" (3005, 10), "3000-3009 (Frontend: 3000)"
\* (3000, 10) and "" (None, None).
C15_PortRangeValues ==
    Returned("parse_port_range") =>
        /\ \A k \in Cores :
              /\ IsDigits(SubSeq(op.arg, 1, k)) =>
                    op.ret = <<Some(DigitsVal(SubSeq(op.arg, 1, k))), Some(10)>>
              /\ \A h \in 2..(k - 1) :
                    (/\ op.arg[h] = "-"
                     /\ IsDigits(SubSeq(op.arg, 1, h - 1))
                     /\ IsDigits(SubSeq(op.arg, h + 1, k)))
                    => op.ret = StartEnd(DigitsVal(SubSeq(op.arg, 1, h - 1)),
                                         DigitsVal(SubSeq(op.arg, h + 1, k)))
        /\ (op.arg = TextRange => op.ret = <<Some(3000), Some(10)>>)
        /\ (op.arg = TextSingle => op.ret = <<Some(3005), Some(10)>>)
        /\ (op.arg = TextAnnotated => op.ret = <<Some(3000), Some(10)>>)
        /\ (op.arg = <<>> => op.ret = <<None, None>>)

C15_Witness ==
    /\ Returned("parse_port_range")
    /\ op.arg = TextAnnotated
    /\ op.ret = <<Some(3000), Some(10)>>

\* what is left once the annotations are taken out, and whether that is an
\* integer, or two integers with one "-" between them
Cleaned == Strip(RemoveParens(op.arg))
IsInteger(t) == ParseInt(t).some
IsWellFormed(t) ==
    \/ IsInteger(t)
    \/ Len(Split(t, "-")) = 2 /\ IsInteger(Split(t, "-")[1]) /\ IsInteger(Split(t, "-")[2])

\* C16: for a text that is neither an integer nor two integers around one
\* "-", parse_port_range gives (None, None); base and range are both given
\* or both None.
C16_PortRangeFailure ==
    Returned("parse_port_range") =>
        /\ op.ret[1].some <=> op.ret[2].some
        /\ ~IsWellFormed(Cleaned) => op.ret = <<None, None>>

\* parse_port_range("3000-3009-3020") returned (3000, 10)
C16_Failure ==
    /\ Returned("parse_port_range")
    /\ op.arg = TextThreeParts
    /\ op.ret = <<Some(3000), Some(10)>>

\* the pieces between the commas of the argument, trimmed; the valid ones
\* have a colon and an integer behind their first colon
Piece(k) == Strip(Split(op.arg, ",")[k])
PieceLabel(k) == Strip(SubSeq(Piece(k), 1, IndexOf(Piece(k), ":") - 1))
PiecePortText(k) == SubSeq(Piece(k), IndexOf(Piece(k), ":") + 1, Len(Piece(k)))
ValidPieces ==
    {k \in 1..Len(Split(op.arg, ",")) :
        IndexOf(Piece(k), ":") > 0 /\ IsInteger(PiecePortText(k))}

\* C17: the labels of the mapping are the trimmed labels of the valid pieces,
\* each once, whatever pieces stand between them; a label has the port of
\* the last valid piece that names it; the empty text gives the empty
\* mapping.
C17_AllocatedParsing ==
    Returned("parse_allocated") =>
        /\ (op.arg = <<>> => op.ret = <<>>)
        /\ DictKeys(op.ret) = {PieceLabel(k) : k \in ValidPieces}
        /\ Len(op.ret) = Cardinality(DictKeys(op.ret))
        /\ \A k \in ValidPieces :
              (\A j \in ValidPieces : j > k => PieceLabel(j) # PieceLabel(k))
              => DictGet(op.ret, PieceLabel(k)) = ParseInt(PiecePortText(k)).v

C17_Witness ==
    /\ Returned("parse_allocated")
    /\ op.arg = Join(<<PieceBadPort, PiecePadded, PieceApi>>, <<",">>)
    /\ op.ret = << <<LabelDb, 80>>, <<LabelApi, 3001>> >>

\* the orders of n things
Perms(n) == {f \in [1..n -> 1..n] : \A i, j \in 1..n : i # j => f[i] # f[j]}

PairText(pair) == pair[1] \o <<":">> \o IntToText(pair[2])

\* text is the pairs of d as "label:port" with ", " between them, in an order
\* in which the ports do not fall
IsPortOrdered(text, d) ==
    \E f \in Perms(Len(d)) :
        /\ \A i, j \in 1..Len(d) : i < j => d[f[i]][2] <= d[f[j]][2]
        /\ text = Join([k \in 1..Len(d) |-> PairText(d[f[k]])], <<",", " ">>)

\* the pieces of the argument in the order f
Reordered(f) == Join([k \in 1..Len(f) |-> Split(op.arg, ",")[f[k]]], <<",">>)

\* format_allocated(parse_allocated(s')) is the same for every order s' of
\* the pieces of the argument
SameInAnyOrder ==
    \A f \in Perms(Len(Split(op.arg, ","))) :
        format_allocated(parse_allocated(Reordered(f))) = op.then

Trimmed(d) == \A k \in 1..Len(d) : Strip(d[k][1]) = d[k][1]
DistinctPieces ==
    \A j, k \in ValidPieces :
        j # k => /\ PieceLabel(j) # PieceLabel(k)
                 /\ ParseInt(PiecePortText(j)) # ParseInt(PiecePortText(k))

\* C18 as stated: format_allocated gives the pairs in ascending order of
\* port; parse_allocated(format_allocated(m)) = m for every mapping m whose
\* labels have no comma and no colon; format_allocated(parse_allocated(s)) is
\* the same for every order of the pairs of s.
C18_FormatInverse_AnyMapping ==
    /\ Returned("format_allocated") => IsPortOrdered(op.ret, op.arg)
    /\ (Returned("format_allocated") /\ op.kind = "again") => DictEq(op.then, op.arg)
    /\ (Returned("parse_allocated") /\ op.kind = "again") => SameInAnyOrder

\* C18 amended: the round trip for mappings whose labels have no whitespace
\* at either end, the independence of the order for texts whose valid pairs
\* have distinct labels and distinct ports.
C18_FormatInverse ==
    /\ Returned("format_allocated") => IsPortOrdered(op.ret, op.arg)
    /\ (Returned("format_allocated") /\ op.kind = "again" /\ Trimmed(op.arg))
          => DictEq(op.then, op.arg)
    /\ (Returned("parse_allocated") /\ op.kind = "again" /\ DistinctPieces)
          => SameInAnyOrder

C18_Witness ==
    /\ Returned("parse_allocated") /\ op.kind = "again"
    /\ op.arg = Join(<<PieceApi, PieceWeb>>, <<",">>)
    /\ op.then = PieceWeb \o <<",", " ">> \o PieceApi

---------------------------------------------------------------------------
(* SpecPorts: one call of get_all_allocated_ports or get_entry_by_name on  *)
(* a catalog whose first line is "## WORK"                                 *)

PortsLinePool ==
    { HeadApp, HeadAppUpper, HeadMyApp, RowAllocated, RowAllocatedLower, RowAllocatedTwo }

LookupArgs == {NameApp, NameAppLower, NameAppUpper, NameZed}

InitPorts ==
    /\ catalog \in {File(<<HeadWork>> \o d) : d \in LinesUpTo(PortsLinePool, MaxLines)}
    /\ op = NoOp(catalog)
    /\ entries = <<>>
    /\ procs = NoProcs
    /\ overlapped = FALSE

\* all_ports = get_all_allocated_ports()
GetAllAllocatedPorts ==
    /\ op.kind = "none"
    /\ op' = [kind |-> "get_all_allocated_ports", name |-> <<>>,
              ret |-> get_all_allocated_ports(catalog)]
    /\ UNCHANGED <<catalog, entries, procs, overlapped>>

\* entry = get_entry_by_name(name)
GetEntryByName(name) ==
    /\ op.kind = "none"
    /\ op' = [kind |-> "get_entry_by_name", name |-> name,
              ret |-> get_entry_by_name(catalog, name)]
    /\ UNCHANGED <<catalog, entries, procs, overlapped>>

NextPorts ==
    \/ GetAllAllocatedPorts
    \/ \E name \in LookupArgs : GetEntryByName(name)

SpecPorts == InitPorts /\ [][NextPorts]_vars

---------------------------------------------------------------------------
(* What the claims about get_all_allocated_ports and get_entry_by_name     *)
(* speak of                                                                *)

\* the allocations <<entry, item>> in the entries es, and the record of one
AllocationsIn(es) ==
    UNION {{n} \X (1..Len(es[n].allocated_dict)) : n \in 1..Len(es)}
RecordOf(es, a) ==
    [port |-> es[a[1]].allocated_dict[a[2]][2],
     name |-> es[a[1]].allocated_dict[a[2]][1],
     project |-> es[a[1]].name,
     category |-> es[a[1]].category]

\* ports has one record for each allocation of es, and its ports do not fall
OneRecordEach(ports, es, allocations) ==
    /\ Len(ports) = Cardinality(allocations)
    /\ \A a \in allocations :
          Cardinality({i \in 1..Len(ports) : ports[i] = RecordOf(es, a)})
             = Cardinality({b \in allocations : RecordOf(es, b) = RecordOf(es, a)})
    /\ \A i, j \in 1..Len(ports) : i < j => ports[i].port <= ports[j].port

AllRecordsOf(ports, es) == OneRecordEach(ports, es, AllocationsIn(es))

\* C19: the list returned has as many records as there are allocations in
\* the parsed entries, each record as often as there are allocations with
\* its port, label, project and category, and the ports do not fall along
\* the list; two entries that allocate the same port both have their record.
C19_AllAllocatedPorts ==
    op.kind = "get_all_allocated_ports" => AllRecordsOf(op.ret, get_all_entries(catalog))

C19_Witness ==
    /\ op.kind = "get_all_allocated_ports"
    /\ Len(op.ret) = 2
    /\ op.ret[1].port = 3000 /\ op.ret[2].port = 3000
    /\ op.ret[1].project = NameApp /\ op.ret[2].project = NameMyApp

\* the entries of es whose name is the requested one, letter case apart
NameHits(es, name) == {n \in 1..Len(es) : Lower(es[n].name) = Lower(name)}

FirstHit(ret, es, hits) ==
    /\ (ret = None) <=> (hits = {})
    /\ hits # {} => ret = Some(es[FirstOf(hits)])

FirstNamed(ret, es, name) == FirstHit(ret, es, NameHits(es, name))

\* C20: get_entry_by_name returns None exactly when no entry has the
\* requested name, letter case apart, and otherwise the first entry of the
\* document that has it.
C20_EntryByName ==
    op.kind = "get_entry_by_name" => FirstNamed(op.ret, get_all_entries(catalog), op.name)

C20_Witness ==
    /\ op.kind = "get_entry_by_name"
    /\ op.name = NameAppLower
    /\ catalog.lines = <<HeadWork, HeadAppUpper, RowAllocated, HeadApp>>
    /\ op.ret.some /\ op.ret.v.name = NameAppUpper /\ op.ret.v.line_start = 1

---------------------------------------------------------------------------
(* ports.py: get_current_project and cmd_allocate *)

\* Path(text): whether it is absolute, and its components ('' and '.' dropped)
PathIsAbsolute(text) == StartsWith(text, <<"/">>)
PathParts(text) == SelectSeq(Split(text, "/"), LAMBDA c : c # <<>> /\ c # <<".">>)

\* cwd == project_path or cwd.is_relative_to(project_path)
IsPrefixOf(a, b) == Len(a) <= Len(b) /\ SubSeq(b, 1, Len(a)) = a
InProject(cwd, path) ==
    /\ PathIsAbsolute(cwd) = PathIsAbsolute(path)
    /\ IsPrefixOf(PathParts(path), PathParts(cwd))

\* cwd.name
PathName(parts) == IF Len(parts) = 0 THEN <<>> ELSE parts[Len(parts)]

\* the two loops of get_current_project over the parsed entries
CurrentOf(es, byPath, byName) ==
    IF byPath # {} THEN Some(es[FirstOf(byPath)])
    ELSE IF byName # {} THEN Some(es[FirstOf(byName)])
    ELSE None

CurrentProjectIn(es, cwd) ==
    CurrentOf(es,
              {k \in 1..Len(es) :
                  /\ es[k].path.some /\ Len(es[k].path.v) > 0
                  /\ InProject(cwd, es[k].path.v)},
              {k \in 1..Len(es) : Lower(es[k].name) = Lower(PathName(PathParts(cwd)))})

\* get_current_project() in working directory cwd
get_current_project(file, cwd) == CurrentProjectIn(get_all_entries(file), cwd)

\* cmd_allocate without the existing allocations: allocated = {}
Merged_FromEmpty(allocated, port_name, port) == <<<<port_name, port>>>>

\* allocated = entry['allocated_dict'].copy(); allocated[port_name] = port
Merged(allocated, port_name, port) == DictSet(allocated, port_name, port)

\* not entry.get('base_port')
NoBasePort(entry) == ~entry.base_port.some \/ entry.base_port.v = 0

\* lines 319-331 of cmd_allocate for the port computed
DecidePort(entry, port_name, port) ==
    IF \E k \in 1..Len(entry.allocated_dict) : entry.allocated_dict[k][2] = port
    THEN [outcome |-> "port_taken", allocated |-> <<>>]
    ELSE IF DictHas(entry.allocated_dict, port_name)
    THEN [outcome |-> "name_taken", allocated |-> <<>>]
    ELSE [outcome |-> "update", allocated |-> Merged(entry.allocated_dict, port_name, port)]

\* lines 305-331 of cmd_allocate for the entry found: what it prints and
\* returns with, or the mapping it goes on to write
Decide(entry, port_name, offset) ==
    IF NoBasePort(entry) THEN [outcome |-> "no_range", allocated |-> <<>>]
    ELSE IF offset >= entry.port_range.v THEN [outcome |-> "bad_offset", allocated |-> <<>>]
    ELSE DecidePort(entry, port_name, entry.base_port.v + offset)

\* cmd_allocate from the call of update_entry_allocated on: what it prints,
\* and the file it leaves
AllocWritten(file, entry, allocated, r) ==
    [outcome |-> IF r.ok THEN "allocated" ELSE "update_failed",
     entry_name |-> entry.name, base_port |-> entry.base_port, port_range |-> entry.port_range,
     allocated |-> allocated, file |-> IF r.ok THEN File(r.lines) ELSE file]

AllocDecided(file, entry, d) ==
    IF d.outcome = "update"
    THEN AllocWritten(file, entry, d.allocated, UpdatedContent(file, entry.name, d.allocated))
    ELSE [outcome |-> d.outcome, entry_name |-> entry.name, base_port |-> entry.base_port,
          port_range |-> entry.port_range, allocated |-> <<>>, file |-> file]

AllocFor(file, entry, port_name, offset) ==
    IF entry.some THEN AllocDecided(file, entry.v, Decide(entry.v, port_name, offset))
    ELSE [outcome |-> "not_found", entry_name |-> <<>>, base_port |-> None,
          port_range |-> None, allocated |-> <<>>, file |-> file]

\* entry = get_entry_by_name(project_name), or get_current_project() if not entry
FirstSome(entry, current) == IF entry.some THEN entry ELSE current

\* cmd_allocate(args) run from start to end on the file, in directory cwd
cmd_allocate(file, project, port_name, offset, cwd) ==
    AllocFor(file,
             FirstSome(get_entry_by_name(file, project), get_current_project(file, cwd)),
             port_name, offset)

---------------------------------------------------------------------------
(* SpecAlloc: two processes run "ports.py allocate" on one catalog *)

ProcIds == {1, 2}

AllocCatalogs ==
    { File(<< HeadWork,
              <<"#", "#", "#", " ", "A", "p", "i">>,
              RowPorts,
              <<"#", "#", "#", " ", "W", "e", "b">>,
              <<"|", " ", "P", "o", "r", "t", "s", " ", "|", " ", "3", "0", "1", "0", "-", "3", "0", "1", "9", " ", "|">>,
              <<"|", " ", "A", "l", "l", "o", "c", "a", "t", "e", "d", " ", "|", " ", "h", "t", "t", "p", ":", "3", "0", "1", "0", " ", "|">> >>),
      File(<< HeadWork,
              <<"#", "#", "#", " ", "A", "p", "i">>,
              RowPorts,
              <<"|", " ", "A", "l", "l", "o", "c", "a", "t", "e", "d", " ", "|", " ", "w", "s", ":", "3", "0", "0", "1", " ", "|">>,
              <<"#", "#", " ", "T", "O", "O", "L", "S">>,
              <<"#", "#", "#", " ", "W", "e", "b">>,
              <<"|", " ", "P", "a", "t", "h", " ", "|", " ", "/", "w", "/", "W", "e", "b", " ", "|">> >>) }

ProjectArgs == { <<"A", "p", "i">>, LabelWeb, NameZed }
PortNameArgs == { <<"h", "t", "t", "p">>, <<"w", "s">> }
OffsetArgs == {0, 1, 10}
CwdArgs == { <<"/", "w", "/", "W", "e", "b", "/", "s", "r", "c">>, <<"/", "h", "o", "m", "e", "/", "a", "p", "i">> }

\* a process before its first step: the command line and working directory
Started(project, name, offset, cwd) ==
    [pc |-> "start", project |-> project, name |-> name, offset |-> offset, cwd |-> cwd,
     entry_name |-> <<>>, allocated |-> <<>>, new_lines |-> <<>>, outcome |-> "running"]

InitAlloc ==
    /\ catalog \in AllocCatalogs
    /\ op = NoOp(catalog)
    /\ entries = <<>>
    /\ procs \in [ProcIds -> {Started(project, name, offset, cwd) :
                                 project \in ProjectArgs, name \in PortNameArgs,
                                 offset \in OffsetArgs, cwd \in CwdArgs}]
    /\ overlapped = FALSE

Running(q) == procs[q].pc \notin {"start", "done"}

\* cmd_allocate from the entry it found to the call of update_entry_allocated
\* or to its return
Proceed(p, entry, d) ==
    procs' = [procs EXCEPT ![p] =
                 IF d.outcome = "update"
                 THEN [@ EXCEPT !.pc = "update", !.entry_name = entry.name,
                                !.allocated = d.allocated]
                 ELSE [@ EXCEPT !.pc = "done", !.entry_name = entry.name,
                                !.outcome = d.outcome]]

Found(p, entry) == Proceed(p, entry, Decide(entry, procs[p].name, procs[p].offset))

\* entry = get_entry_by_name(project_name)
LookedUp(p, entry) ==
    IF entry.some THEN Found(p, entry.v)
    ELSE procs' = [procs EXCEPT ![p].pc = "fallback"]

AllocLookup(p) ==
    /\ procs[p].pc = "start"
    /\ LookedUp(p, get_entry_by_name(catalog, procs[p].project))
    /\ overlapped' = (overlapped \/ \E q \in ProcIds \ {p} : Running(q))
    /\ UNCHANGED <<catalog, op, entries>>

\* current = get_current_project()
FellBack(p, current) ==
    IF current.some THEN Found(p, current.v)
    ELSE procs' = [procs EXCEPT ![p].pc = "done", ![p].outcome = "not_found"]

AllocFallback(p) ==
    /\ procs[p].pc = "fallback"
    /\ FellBack(p, get_current_project(catalog, procs[p].cwd))
    /\ UNCHANGED <<catalog, op, entries, overlapped>>

\* update_entry_allocated up to the text to write: load_catalog and the rewrite
Loaded(p, r) ==
    procs' = [procs EXCEPT ![p] =
                 IF r.ok THEN [@ EXCEPT !.pc = "write", !.new_lines = r.lines]
                 ELSE [@ EXCEPT !.pc = "done", !.outcome = "update_failed"]]

UpdateLoad(p) ==
    /\ procs[p].pc = "update"
    /\ Loaded(p, UpdatedContent(catalog, procs[p].entry_name, procs[p].allocated))
    /\ UNCHANGED <<catalog, op, entries, overlapped>>

\* catalog_file.write_text(new_content); return True; "Allocated port ..."
UpdateWrite(p) ==
    /\ procs[p].pc = "write"
    /\ catalog' = File(procs[p].new_lines)
    /\ procs' = [procs EXCEPT ![p].pc = "done", ![p].outcome = "allocated"]
    /\ UNCHANGED <<op, entries, overlapped>>

NextAlloc ==
    \E p \in ProcIds :
        \/ AllocLookup(p)
        \/ AllocFallback(p)
        \/ UpdateLoad(p)
        \/ UpdateWrite(p)

SpecAlloc == InitAlloc /\ [][NextAlloc]_vars

---------------------------------------------------------------------------
(* SpecSeq: one process runs up to MaxCommands "ports.py allocate"         *)
(* commands, one after the other                                           *)

MaxCommands == 2

HeadApi == <<"#", "#", "#", " ", "A", "p", "i">>
HeadWeb == <<"#", "#", "#", " ", "W", "e", "b">>
RowPortsWeb == <<"|", " ", "P", "o", "r", "t", "s", " ", "|", " ", "3", "0", "1", "0", "-", "3", "0", "1", "9", " ", "|">>
RowAllocatedHttp == <<"|", " ", "A", "l", "l", "o", "c", "a", "t", "e", "d", " ", "|", " ", "h", "t", "t", "p", ":", "3", "0", "1", "0", " ", "|">>
NameApi == <<"A", "p", "i">>
LabelHttp == <<"h", "t", "t", "p">>
LabelWs == <<"w", "s">>
LabelTwoPairs == <<"w", "s", ":", "3", "0", "0", "1", ",", " ", "x">>
LabelX == <<"x">>

SeqCatalogs ==
    { File(<<HeadWork, HeadApi, RowPorts, HeadWeb, RowPortsWeb, RowAllocatedHttp>>),
      File(<<HeadWork, HeadApp, RowPorts, HeadMyApp, RowPortsWeb, RowAllocatedHttp>>),
      File(<<HeadWork, HeadApi, RowPorts, RowAllocatedLower>>) }

SeqProjectArgs == {NameApi, LabelWeb, NameApp, NameMyApp, NameZed}
SeqPortNameArgs == {LabelHttp, LabelWs, LabelTwoPairs}
SeqOffsetArgs == {0 - 1, 0, 1, 10}
SeqCwd == <<"/", "h", "o", "m", "e", "/", "a", "p", "i">>

InitSeq ==
    /\ catalog \in SeqCatalogs
    /\ op = [kind |-> "none", n |-> 0, start |-> catalog, log |-> <<>>]
    /\ entries = <<>>
    /\ procs = NoProcs
    /\ overlapped = FALSE

\* the command that ran, what it printed, and the allocations printed as
\* "Allocated port ..." so far
Ran(r, port_name, offset) ==
    /\ catalog' = r.file
    /\ op' = [kind |-> "allocate", n |-> op.n + 1, start |-> op.start,
              log |-> IF r.outcome = "allocated"
                      THEN Append(op.log, <<r.entry_name, port_name, r.base_port.v + offset>>)
                      ELSE op.log,
              name |-> port_name, offset |-> offset, outcome |-> r.outcome,
              entry_name |-> r.entry_name, base_port |-> r.base_port,
              port_range |-> r.port_range, before |-> catalog]

Allocate(project, port_name, offset) ==
    /\ op.n < MaxCommands
    /\ Ran(cmd_allocate(catalog, project, port_name, offset, SeqCwd), port_name, offset)
    /\ UNCHANGED <<entries, procs, overlapped>>

NextSeq ==
    \E project \in SeqProjectArgs, port_name \in SeqPortNameArgs, offset \in SeqOffsetArgs :
        Allocate(project, port_name, offset)

SpecSeq == InitSeq /\ [][NextSeq]_vars

---------------------------------------------------------------------------
(* What the claims about allocate commands run one after the other speak of *)

JustAllocated == op.kind = "allocate" /\ op.outcome = "allocated"

\* the port of the allocation the last command wrote
WrittenPort == op.base_port.v + op.offset

\* C21: an allocation that cmd_allocate writes for an entry with base port b
\* and range size n has its port in [b, b + n), whatever the offset.
C21_RangeContainment ==
    JustAllocated =>
        /\ op.base_port.v <= WrittenPort
        /\ WrittenPort < op.base_port.v + op.port_range.v

\* "allocate Api http -1" on an entry with Ports 3000-3009 wrote http:2999
C21_Failure ==
    /\ JustAllocated
    /\ op.offset = 0 - 1 /\ op.base_port = Some(3000) /\ op.port_range = Some(10)
    /\ op.before.lines = <<HeadWork, HeadApi, RowPorts, HeadWeb, RowPortsWeb, RowAllocatedHttp>>
    /\ catalog.lines[4] = <<"|", " ", "A", "l", "l", "o", "c", "a", "t", "e", "d", " ", "|", " ", "h", "t", "t", "p", ":", "2", "9", "9", "9", " ", "|">>

\* the entry the last command worked on, as parsed before and after it
RanOnEntry == op.kind = "allocate" /\ op.base_port.some
EntryBefore == get_entry_by_name(op.before, op.entry_name).v
EntryAfter == get_entry_by_name(catalog, op.entry_name).v

\* no two labels of the mapping have the same port
Injective(d) == \A i, j \in 1..Len(d) : d[i][2] = d[j][2] => i = j

HasPort(d, port) == \E k \in 1..Len(d) : d[k][2] = port

\* the command refused: it wrote nothing and reported no allocation
Refused == op.outcome # "allocated" /\ catalog = op.before

\* C25: an allocate command leaves the allocation map of its entry
\* injective when it was injective before, and when the port asked for is
\* already allocated in that entry, or the label is already present, it
\* refuses and leaves the catalog unchanged.
C25_InjectiveAllocation ==
    RanOnEntry =>
        /\ Injective(EntryBefore.allocated_dict) => Injective(EntryAfter.allocated_dict)
        /\ (\/ HasPort(EntryBefore.allocated_dict, WrittenPort)
            \/ DictHas(EntryBefore.allocated_dict, op.name)) => Refused

\* "allocate Api 'ws:3001, x' 1" on an entry with Ports 3000-3009 and no
\* allocations wrote "| Allocated | ws:3001, x:3001 |": two labels, one port
C25_Failure ==
    /\ JustAllocated /\ op.name = LabelTwoPairs /\ op.offset = 1
    /\ op.before.lines = <<HeadWork, HeadApi, RowPorts, HeadWeb, RowPortsWeb, RowAllocatedHttp>>
    /\ catalog.lines[4] = <<"|", " ", "A", "l", "l", "o", "c", "a", "t", "e", "d", " ", "|", " ", "w", "s", ":", "3", "0", "0", "1", ",", " ", "x", ":", "3", "0", "0", "1", " ", "|">>
    /\ EntryBefore.allocated_dict = <<>>
    /\ EntryAfter.allocated_dict = << <<LabelWs, 3001>>, <<LabelX, 3001>> >>

\* the pairs the commands so far reported as allocated to the entry named
LoggedPairs(entry_name) ==
    {<<op.log[k][2], op.log[k][3]>> : k \in {n \in 1..Len(op.log) : op.log[n][1] = entry_name}}

PairsOf(d) == {d[k] : k \in 1..Len(d)}

\* the entry of that name in the catalog as it is now has the mapping it
\* started with and the pairs reported for it, and nothing else
Accumulated(e) ==
    /\ get_entry_by_name(catalog, e.name).some
    /\ PairsOf(get_entry_by_name(catalog, e.name).v.allocated_dict)
          = PairsOf(e.allocated_dict) \cup LoggedPairs(e.name)

\* C26: after allocate commands run one after the other, every entry's
\* parsed allocation map is the map it had at the start together with all
\* the label:port pairs the commands reported as allocated to it.
C26_SequentialAccumulation ==
    op.kind = "allocate" =>
        \A k \in 1..Len(get_all_entries(op.start)) :
            Accumulated(get_all_entries(op.start)[k])

\* "allocate App http 0" on "## WORK / ### App / | Ports | 3000-3009 | /
\* ### MyApp / | Ports | 3010-3019 | / | Allocated | http:3010 |" reported
\* http:3000 for App and wrote it over the row of MyApp
C26_Failure ==
    /\ JustAllocated /\ op.n = 1
    /\ op.log = << <<NameApp, LabelHttp, 3000>> >>
    /\ op.start.lines = <<HeadWork, HeadApp, RowPorts, HeadMyApp, RowPortsWeb, RowAllocatedHttp>>
    /\ catalog.lines = <<HeadWork, HeadApp, RowPorts, HeadMyApp, RowPortsWeb, <<"|", " ", "A", "l", "l", "o", "c", "a", "t", "e", "d", " ", "|", " ", "h", "t", "t", "p", ":", "3", "0", "0", "0", " ", "|">>>>
    /\ get_entry_by_name(catalog, NameApp).v.allocated_dict = <<>>
    /\ get_entry_by_name(catalog, NameMyApp).v.allocated_dict = << <<LabelHttp, 3000>> >>

---------------------------------------------------------------------------
(* What the claim about concurrent allocate commands speaks of *)

\* both commands printed "Allocated port ... Updated CATALOG.md"
BothAllocated == \A p \in ProcIds : procs[p].pc = "done" /\ procs[p].outcome = "allocated"

\* the label:port pair process p added, and whether the entry it was for has
\* that pair in the catalog as it is now
AllocatedPort(p) == DictGet(procs[p].allocated, procs[p].name)
Present(p) ==
    \E k \in 1..Len(get_all_entries(catalog)) :
        /\ get_all_entries(catalog)[k].name = procs[p].entry_name
        /\ \E n \in 1..Len(get_all_entries(catalog)[k].allocated_dict) :
              get_all_entries(catalog)[k].allocated_dict[n]
                  = <<procs[p].name, AllocatedPort(p)>>

\* C9: two allocate commands that both report success and ran strictly one
\* after the other leave both allocations in the catalog. (That an
\* interleaving of the two loses one of them is the state C9_Witness.)
C9_SequentialKeepsBoth ==
    (BothAllocated /\ ~overlapped) => (Present(1) /\ Present(2))

\* the two commands overlapped, both report success, and only one of the two
\* allocations is in the catalog
C9_Witness ==
    /\ BothAllocated /\ overlapped
    /\ Present(1) # Present(2)

---------------------------------------------------------------------------
(* config.py: get_categories; init.py: get_next_available_port *)

\* the "categories" of the configuration when the config file has none: the
\* name of each category with its "base"
default_categories ==
    << <<<<"W", "O", "R", "K">>, Some(3000)>>,
       <<<<"P", "E", "R", "S", "O", "N", "A", "L">>, Some(4000)>>,
       <<<<"E", "X", "P", "E", "R", "I", "M", "E", "N", "T", "S">>, Some(5000)>>,
       <<<<"T", "O", "O", "L", "S">>, None>> >>

\* \w of the pattern: a letter, a digit or "_"
IsWordCh(c) ==
    \/ IsDigit(c) \/ c = "_"
    \/ \E k \in 1..Len(UpperChars) : UpperChars[k] = c \/ LowerChars[k] = c

\* \b at position p of text, between text[p - 1] and text[p]
IsWordAt(text, p) == p >= 1 /\ p <= Len(text) /\ IsWordCh(text[p])
BoundaryAt(text, p) == IsWordAt(text, p - 1) # IsWordAt(text, p)

\* \d{n} at position p
DigitsAt(text, p, n) ==
    p + n - 1 <= Len(text) /\ \A k \in p..(p + n - 1) : IsDigit(text[k])

\* where a match that takes n1 digits and then "-" and n2 digits (n2 = 0: no
\* second part) ends, one past its last character
PortMatchEnd(p, n1, n2) == IF n2 = 0 THEN p + n1 ELSE p + n1 + 1 + n2

\* \b(\d{n1})(?:-\d{n2})?\b matched at position p with these counts
MatchesWith(text, p, n1, n2) ==
    /\ BoundaryAt(text, p)
    /\ DigitsAt(text, p, n1)
    /\ n2 # 0 => /\ p + n1 <= Len(text) /\ text[p + n1] = "-"
                 /\ DigitsAt(text, p + n1 + 1, n2)
    /\ BoundaryAt(text, PortMatchEnd(p, n1, n2))

\* the counts the pattern \b(\d{4,5})(?:-\d{4,5})?\b tries, in the order of
\* its greedy quantifiers
PortPatternTries == << <<5, 5>>, <<5, 4>>, <<5, 0>>, <<4, 5>>, <<4, 4>>, <<4, 0>> >>

\* the first try that matches at p, 0 when none does
FirstTry(text, p) ==
    LET ok == {t \in 1..Len(PortPatternTries) :
                  MatchesWith(text, p, PortPatternTries[t][1], PortPatternTries[t][2])}
    IN IF ok = {} THEN 0 ELSE FirstOf(ok)

\* re.findall(pattern, content) from position p on: int() of group 1 of each
\* match, the search going on where the match ended
RECURSIVE FindPortsFrom(_, _)
FoundPort(text, p, try) ==
    <<DigitsVal(SubSeq(text, p, p + try[1] - 1))>>
        \o FindPortsFrom(text, PortMatchEnd(p, try[1], try[2]))
FindPortsTry(text, p, t) ==
    IF t = 0 THEN FindPortsFrom(text, p + 1)
    ELSE FoundPort(text, p, PortPatternTries[t])
FindPortsFrom(text, p) ==
    IF p > Len(text) THEN <<>>
    ELSE IF ~IsDigit(text[p]) THEN FindPortsFrom(text, p + 1)
    ELSE FindPortsTry(text, p, FirstTry(text, p))

\* lines 59-70: the port_base of every number found that falls in the
\* thousand of the category. No character of the pattern matches a line end
\* and a line end is not a word character, so the matches in content are the
\* matches in its lines
PortBase(port) == (port \div 10) * 10
UsedIn(base, found) ==
    {PortBase(found[k]) : k \in {n \in 1..Len(found) :
                                    base <= PortBase(found[n]) /\ PortBase(found[n]) < base + 1000}}
used_ports(base, file) ==
    IF file.exists
    THEN UNION {UsedIn(base, FindPortsFrom(file.lines[k], 1)) : k \in 1..Len(file.lines)}
    ELSE {}

\* lines 72-78: the first candidate that is not used, base + 1000 when all
\* the hundred are
FirstFree(base, used) ==
    LET free == {k \in 0..99 : base + 10 * k \notin used}
    IN IF free = {} THEN base + 1000
       ELSE base + 10 * FirstOf(free)

get_next_available_port(categories, file, category) ==
    IF ~DictHas(categories, category) \/ ~DictGet(categories, category).some
    THEN None
    ELSE Some(FirstFree(DictGet(categories, category).v,
                        used_ports(DictGet(categories, category).v, file)))

---------------------------------------------------------------------------
(* init.py: add_to_catalog, update_quick_reference and main;               *)
(* catalog.py: cmd_add                                                     *)

\* f"| {key} | {value} |"
TableRow(key, value) == <<"|", " ">> \o key \o <<" ", "|", " ">> \o value \o <<" ", "|">>

\* "if value:" rows of entry_md: nothing for None and for the empty string
OptionalRow(key, value) ==
    IF value.some /\ value.v # <<>> THEN <<TableRow(key, value.v)>> ELSE <<>>
OptionalPath(path) ==
    IF path.some /\ path.v # <<>>
    THEN <<TableRow(<<"P", "a", "t", "h">>, <<Backtick>> \o path.v \o <<Backtick>>)>> ELSE <<>>
OptionalDescription(description) ==
    IF description.some /\ description.v # <<>> THEN <<<<>>, description.v>> ELSE <<>>

\* entry_md, as the lines it puts between the line of the match's end and the
\* line after it: it starts with "\n" and ends with "\n\n---\n"
EntryMd(name, entry_type, path, ports, allocated, stack, github, status, description) ==
    << <<>>,
       <<"#", "#", "#", " ">> \o name,
       <<"|", " ", "P", "r", "o", "p", "e", "r", "t", "y", " ", "|", " ", "V", "a", "l", "u", "e", " ", "|">>,
       <<"|", "-", "-", "-", "-", "-", "-", "-", "-", "-", "-", "|", "-", "-", "-", "-", "-", "-", "-", "|">>,
       TableRow(<<"T", "y", "p", "e">>, entry_type) >>
      \o OptionalPath(path)
      \o OptionalRow(<<"P", "o", "r", "t", "s">>, ports)
      \o OptionalRow(<<"A", "l", "l", "o", "c", "a", "t", "e", "d">>, allocated)
      \o OptionalRow(<<"S", "t", "a", "c", "k">>, stack)
      \o OptionalRow(<<"G", "i", "t", "H", "u", "b">>, github)
      \o <<TableRow(<<"S", "t", "a", "t", "u", "s">>, status)>>
      \o OptionalDescription(description)
      \o << <<>>, <<"-", "-", "-">> >>

\* \*[^*]+\*\n from the "*" that opens line m: the line the match ends with,
\* 0 when there is no match. [^*]+ takes line ends too, so the closing "*" is
\* the first "*" that follows, and it has to end its line, not be the last
\* character of the file, and not follow the opening "*" directly
RECURSIVE ClosingLine(_, _, _)
ClosingStar(lines, m, from, k) ==
    IF k = 0 THEN ClosingLine(lines, m + 1, 1)
    ELSE IF k + from - 1 = Len(lines[m]) /\ m < Len(lines) /\ ~(from = 2 /\ k = 1)
    THEN m
    ELSE 0
ClosingLine(lines, m, from) ==
    IF m > Len(lines) THEN 0
    ELSE ClosingStar(lines, m, from, IndexOf(SubSeq(lines[m], from, Len(lines[m])), "*"))

\* rf'^## {category}\n\*[^*]+\*\n' with re.MULTILINE | re.IGNORECASE matched
\* at line i: the line the match ends with, 0 when there is no match
SectionMatchAt(lines, i, category) ==
    IF /\ Lower(lines[i]) = Lower(<<"#", "#", " ">> \o category)
       /\ i < Len(lines)
       /\ StartsWith(lines[i + 1], <<"*">>)
    THEN ClosingLine(lines, i + 1, 2)
    ELSE 0

\* re.search: the match that starts first
SectionEnd(lines, category) ==
    LET found == {i \in 1..Len(lines) : SectionMatchAt(lines, i, category) # 0}
    IN IF found = {} THEN 0 ELSE SectionMatchAt(lines, FirstOf(found), category)

\* content[:insert_pos] + entry_md + content[insert_pos:], or no write
InsertedAt(lines, j, entry_md) ==
    IF j = 0 THEN [ok |-> FALSE, lines |-> <<>>]
    ELSE [ok |-> TRUE,
          lines |-> SubSeq(lines, 1, j) \o entry_md \o SubSeq(lines, j + 1, Len(lines))]

\* add_to_catalog from the content it read to the text it writes: [ok, lines];
\* ok = FALSE is "return False", with nothing written
add_to_catalog(lines, name, category, entry_type, path, ports, stack, github, description) ==
    InsertedAt(lines, SectionEnd(lines, category),
               EntryMd(name, entry_type, path, ports, None, stack, github,
                       <<"W", "I", "P">>, description))

\* \|[^\n]+\n at line k: a line of two characters or more that starts with
\* "|" and is not the last one
IsTableLine(lines, k) ==
    k < Len(lines) /\ Len(lines[k]) >= 2 /\ lines[k][1] = "|"

EndsWith(s, p) == Len(s) >= Len(p) /\ SubSeq(s, Len(s) - Len(p) + 1, Len(s)) = p

\* the header of table_pattern found at line i: the text ends the line and a
\* table line follows
TableAt(lines, i) ==
    EndsWith(lines[i], <<"|", " ", "C", "a", "t", "e", "g", "o", "r", "y", " ", "|", " ", "P", "r", "o", "j", "e", "c", "t", " ", "|", " ", "P", "o", "r", "t", "s", " ", "|">>) /\ IsTableLine(lines, i + 1)

\* the last line of group 2, the rows after the header's two lines
RECURSIVE LastRow(_, _)
LastRow(lines, k) == IF IsTableLine(lines, k + 1) THEN LastRow(lines, k + 1) ELSE k

\* update_quick_reference: the text it writes, or the text as it is when the
\* table is not found
WithRowAt(lines, tables, row) ==
    IF tables = {} THEN lines
    ELSE ListInsert(lines, LastRow(lines, FirstOf(tables) + 1), row)
update_quick_reference(lines, name, category, ports) ==
    WithRowAt(lines, {i \in 1..Len(lines) : TableAt(lines, i)},
              TableRow(category, name) \o <<" ">> \o ports \o <<" ", "|">>)

\* TECH_STACKS["react-fastapi"]
DefaultStack == <<"R", "e", "a", "c", "t", " ", "1", "8", ",", " ", "T", "y", "p", "e", "S", "c", "r", "i", "p", "t", ",", " ", "V", "i", "t", "e", ",", " ", "T", "a", "n", "S", "t", "a", "c", "k", " ", "Q", "u", "e", "r", "y", ",", " ", "T", "a", "i", "l", "w", "i", "n", "d", " ", "C", "S", "S", ",", " ", "F", "a", "s", "t", "A", "P", "I", ",", " ", "P", "y", "t", "h", "o", "n">>

\* f"{base_port}-{base_port + 9}"
PortsStr(base_port) ==
    IF base_port.some
    THEN Some(IntToText(base_port.v) \o <<"-">> \o IntToText(base_port.v + 9))
    ELSE None

\* main, lines 236-252: the base port of a category with a base is --port
\* when given, else the suggestion, which the empty answer accepts
BasePort(categories, file, category, port) ==
    IF ~DictGet(categories, category).some THEN None
    ELSE IF port.some /\ port.v # 0 THEN port
    ELSE get_next_available_port(categories, file, category)

\* main, lines 325-343: add_to_catalog and, when it succeeded for an entry
\* with ports, update_quick_reference
Registered(file, added, name, category, ports_str) ==
    IF ~added.ok THEN file
    ELSE IF ports_str.some
    THEN File(update_quick_reference(added.lines, name, category, ports_str.v))
    ELSE File(added.lines)

InitWith(file, name, category, cwd, base_port, ports_str) ==
    [outcome |-> "ran", base_port |-> base_port,
     file |-> Registered(file,
                         add_to_catalog(file.lines, name, category, <<"A", "p", "p", "l", "i", "c", "a", "t", "i", "o", "n">>,
                                        Some(cwd), ports_str, Some(DefaultStack),
                                        None, None),
                         name, category, ports_str)]

InitIn(file, name, category, cwd, base_port) ==
    IF ~file.exists THEN [outcome |-> "raised", base_port |-> base_port, file |-> file]
    ELSE InitWith(file, name, category, cwd, base_port, PortsStr(base_port))

\* "init.py --category C --yes [--port P]" run in directory cwd, which has no
\* ports.json yet, the question for the base port answered with the empty
\* line; the project's name is the name of the directory. A category that is
\* not in the configuration is rejected by the argument parser; a missing
\* catalog makes read_text() raise after ports.json was written
init_main(categories, file, category, port, cwd) ==
    IF ~DictHas(categories, category)
    THEN [outcome |-> "usage", base_port |-> None, file |-> file]
    ELSE InitIn(file, PathName(PathParts(cwd)), category, cwd,
                BasePort(categories, file, category, port))

\* cmd_add, lines 448-456: the Allocated row offered for the ports typed in,
\* which the empty answer accepts
DefaultAllocated(range) ==
    IF range[1].some /\ range[1].v # 0
    THEN Some(<<"f", "r", "o", "n", "t", "e", "n", "d", ":">> \o IntToText(range[1].v) \o <<",", " ", "b", "a", "c", "k", "e", "n", "d", ":">>
                  \o IntToText(range[1].v + 1))
    ELSE None
AllocatedFor(ports) == IF ports = <<>> THEN None ELSE DefaultAllocated(parse_port_range(ports))

AddedTo(file, added) == IF added.ok THEN File(added.lines) ELSE file

\* "catalog.py add" with the category, the name and the ports typed in, every
\* other question answered with the empty line and the confirmation with "y";
\* without a catalog file re.search(pattern, None) raises
cmd_add(categories, file, category, name, ports) ==
    IF /\ \E k \in 1..Len(categories) : Upper(categories[k][1]) = Upper(category)
       /\ name # <<>>
       /\ file.exists
    THEN AddedTo(file,
                 InsertedAt(file.lines, SectionEnd(file.lines, Upper(category)),
                            EntryMd(name, <<"A", "p", "p", "l", "i", "c", "a", "t", "i", "o", "n">>, None, Some(ports),
                                    AllocatedFor(ports), None, None, <<"W", "I", "P">>, None)))
    ELSE file

---------------------------------------------------------------------------
(* SpecInit: up to MaxInits runs of "init.py" and "catalog.py add" on one  *)
(* catalog, and calls of get_next_available_port in between                *)

MaxInits == 2
MaxProjects == 1

DescWork == <<"*", "W", "o", "r", "k", " ", "p", "r", "o", "j", "e", "c", "t", "s", "*">>
RowPortsWide == <<"|", " ", "P", "o", "r", "t", "s", " ", "|", " ", "3", "0", "0", "0", "-", "3", "0", "1", "9", " ", "|">>
RowPortsOdd == <<"|", " ", "P", "o", "r", "t", "s", " ", "|", " ", "3", "0", "0", "5", "-", "3", "0", "1", "4", " ", "|">>
TableHead == <<"|", " ", "C", "a", "t", "e", "g", "o", "r", "y", " ", "|", " ", "P", "r", "o", "j", "e", "c", "t", " ", "|", " ", "P", "o", "r", "t", "s", " ", "|">>
TableSep == <<"|", "-", "-", "-", "-", "-", "-", "-", "-", "-", "-", "|", "-", "-", "-", "-", "-", "-", "-", "-", "-", "|", "-", "-", "-", "-", "-", "-", "-", "|">>
CatWork == <<"W", "O", "R", "K">>
CatTools == <<"T", "O", "O", "L", "S">>
CatLab == <<"L", "A", "B">>
NameCli == <<"C", "l", "i">>
PortsTyped == <<"3", "0", "2", "0", "-", "3", "0", "2", "9">>
CwdWeb == <<"/", "w", "/", "W", "e", "b">>

\* the configuration after setup.py was answered with a category WORK of
\* base port 3005
custom_categories == [default_categories EXCEPT ![1] = <<CatWork, Some(3005)>>]

RECURSIVE Flatten(_)
Flatten(seqs) == IF Len(seqs) = 0 THEN <<>> ELSE seqs[1] \o Flatten(Tail(seqs))

\* the entries a catalog starts with: up to MaxProjects projects, each a
\* heading and its Ports row
ProjectBlocks == {<<HeadApi, row>> : row \in {RowPorts, RowPortsWide, RowPortsOdd}}
ProjectLists == {<<>>} \cup UNION {[1..k -> ProjectBlocks] : k \in 1..MaxProjects}

\* the section WORK as setup.py writes it, without its description line, and
\* after the Quick Reference section
SectionStarts ==
    { <<HeadWork, DescWork>>,
      <<HeadWork>>,
      <<HeadQuickRef, HeadWork, DescWork>> }

\* the end of the catalog: nothing, or the Quick Reference table
CatalogEnds ==
    { << <<>> >>,
      << <<>>, HeadQuickRef, TableHead, TableSep, <<>> >> }

\* a category WORK in which every block of ten from 3000 to 3990 has its
\* project
FullCategory ==
    <<HeadWork, DescWork>>
        \o Flatten([k \in 1..100 |->
               <<HeadApi, TableRow(<<"P", "o", "r", "t", "s">>, PortsStr(Some(3000 + 10 * (k - 1))).v)>>])
        \o << <<>> >>

InitCatalogs ==
    {MissingFile, File(FullCategory)}
        \cup {File(s \o Flatten(p) \o e) :
                  s \in SectionStarts, p \in ProjectLists, e \in CatalogEnds}

InitInit ==
    /\ catalog \in InitCatalogs
    /\ \E categories \in {default_categories, custom_categories} :
          op = [kind |-> "none", n |-> 0, categories |-> categories, before |-> catalog]
    /\ entries = <<>>
    /\ procs = NoProcs
    /\ overlapped = FALSE

\* one call of get_next_available_port(category)
GetNextAvailablePort(category) ==
    /\ op.n <= MaxInits
    /\ op' = [kind |-> "suggest", n |-> op.n, categories |-> op.categories,
              category |-> category, before |-> catalog,
              ret |-> get_next_available_port(op.categories, catalog, category)]
    /\ UNCHANGED <<catalog, entries, procs, overlapped>>

InitRan(r, category, port, cwd) ==
    /\ catalog' = r.file
    /\ op' = [kind |-> "init", n |-> op.n + 1, categories |-> op.categories,
              category |-> category, before |-> catalog,
              port |-> port, name |-> PathName(PathParts(cwd)),
              outcome |-> r.outcome, base_port |-> r.base_port]

\* one run of "init.py --category C --yes [--port P]" in directory cwd
InitProject(category, port, cwd) ==
    /\ op.n < MaxInits
    /\ InitRan(init_main(op.categories, catalog, category, port, cwd), category, port, cwd)
    /\ UNCHANGED <<entries, procs, overlapped>>

\* one run of "catalog.py add"
CmdAdd(category, name, ports) ==
    /\ op.n < MaxInits
    /\ catalog' = cmd_add(op.categories, catalog, category, name, ports)
    /\ op' = [kind |-> "add", n |-> op.n + 1, categories |-> op.categories,
              category |-> category, before |-> catalog,
              name |-> name, ports |-> ports]
    /\ UNCHANGED <<entries, procs, overlapped>>

NextInit ==
    \/ \E category \in {CatWork, CatTools, CatLab} : GetNextAvailablePort(category)
    \/ \E category \in {CatWork, CatTools}, port \in {None, Some(3015)} :
          InitProject(category, port, CwdWeb)
    \/ \E ports \in {<<>>, PortsTyped} : CmdAdd(CatWork, NameCli, ports)

SpecInit == InitInit /\ [][NextInit]_vars

---------------------------------------------------------------------------
(* What the claims about init.py and "catalog.py add" speak of *)

Suggested == op.kind = "suggest" /\ op.ret.some

\* the ports b .. b + n - 1 and c .. c + m - 1 have a port in common
Overlap(b, n, c, m) == b < c + m /\ c < b + n

\* the entry is one of that category and its Ports row gives a range
RecordedIn(e, category) ==
    e.category = Upper(category) /\ e.base_port.some /\ e.port_range.some

FreeOf(port, es, category) ==
    \A k \in 1..Len(es) :
        RecordedIn(es[k], category)
            => ~Overlap(port, 10, es[k].base_port.v, es[k].port_range.v)

\* C22: the ten ports from the port that get_next_available_port returns for
\* a category overlap no port range that an entry of that category records
\* in the catalog.
C22_NextFreeBlock ==
    Suggested => FreeOf(op.ret.v, get_all_entries(catalog), op.category)

\* with the default categories and "### Api / | Ports | 3000-3019 |" in WORK,
\* get_next_available_port('WORK') is 3010
C22_Failure ==
    /\ Suggested /\ op.category = CatWork /\ op.categories = default_categories
    /\ catalog.lines = <<HeadWork, DescWork, HeadApi, RowPortsWide, <<>> >>
    /\ op.ret = Some(3010)

\* the base of the category in the configuration of the run; None for a
\* category that is unknown or has no base
BaseOf(category) ==
    IF DictHas(op.categories, category) THEN DictGet(op.categories, category) ELSE None

\* port is base + 10k for some k of 0 .. 99, and no smaller k has its port
\* unmarked
LowestUnmarked(port, base, used) ==
    /\ \E k \in 0..99 : port = base + 10 * k
    /\ port \notin used
    /\ \A k \in 0..99 : base + 10 * k < port => base + 10 * k \in used

\* some entry of the catalog has that base port
RegisteredIn(es, port) == \E k \in 1..Len(es) : es[k].base_port = Some(port)

\* the run of init.py took the suggested port
AcceptedSuggestion == op.kind = "init" /\ op.port = None /\ op.base_port.some

\* C28: get_next_available_port returns None exactly for a category that is
\* unknown or has no base, and otherwise the lowest base + 10k, 0 <= k < 100,
\* that is not marked used; and the port a run of init.py takes over from it
\* lies in [base, base + 999] and is the base port of no entry registered
\* before that run.
C28_SuggestedPorts ==
    /\ op.kind = "suggest" =>
          /\ op.ret.some <=> BaseOf(op.category).some
          /\ op.ret.some =>
                LowestUnmarked(op.ret.v, BaseOf(op.category).v,
                               used_ports(BaseOf(op.category).v, catalog))
    /\ AcceptedSuggestion =>
          /\ BaseOf(op.category).v <= op.base_port.v
          /\ op.base_port.v <= BaseOf(op.category).v + 999
          /\ ~RegisteredIn(get_all_entries(op.before), op.base_port.v)

\* with WORK at base 3005, the second run of "init.py --category WORK --yes"
\* took 3005, the base port the first run had registered for Web
C28_Failure ==
    /\ AcceptedSuggestion /\ op.n = 2
    /\ op.categories = custom_categories /\ op.category = CatWork
    /\ op.base_port = Some(3005)
    /\ Len(get_all_entries(op.before)) = 1
    /\ get_all_entries(op.before)[1].name = PathName(PathParts(CwdWeb))
    /\ get_all_entries(op.before)[1].ports = Some(<<"3", "0", "0", "5", "-", "3", "0", "1", "4">>)
    /\ Len(get_all_entries(catalog)) = 2

\* a call for a category whose hundred blocks are all taken returned
\* base + 1000
C28_FullCategory ==
    /\ op.kind = "suggest" /\ op.category = CatWork
    /\ op.categories = default_categories
    /\ catalog.lines = FullCategory
    /\ op.ret = Some(4000)

\* a run of init.py that got as far as add_to_catalog, or a run of
\* "catalog.py add", on a catalog that exists
AddRan ==
    \/ op.kind = "init" /\ op.outcome = "ran"
    \/ op.kind = "add" /\ op.before.exists

\* the line the category's heading and description end with in the catalog
\* the run started from, 0 when the section is not found
FoundEnd == SectionEnd(op.before.lines, op.category)

\* an entry without the number of its line
Unplaced(e) == [e EXCEPT !.line_start = 0]
AllUnplaced(es) == [k \in 1..Len(es) |-> Unplaced(es[k])]

\* es without its p-th element
Without(es, p) == SubSeq(es, 1, p - 1) \o SubSeq(es, p + 1, Len(es))

\* now is old with one entry more, of that name and category
OneMore(old, now, name, category) ==
    \E p \in 1..Len(now) :
        /\ now[p].name = name /\ now[p].category = Upper(category)
        /\ AllUnplaced(Without(now, p)) = AllUnplaced(old)

\* the block starts right after line j, which follows the category's heading
BlockAfter(old, now, j, name, category) ==
    /\ Lower(old[j - 1]) = Lower(<<"#", "#", " ">> \o category)
    /\ SubSeq(now, 1, j) = SubSeq(old, 1, j)
    /\ now[j + 1] = <<>> /\ now[j + 2] = <<"#", "#", "#", " ">> \o name

\* C29: when a run of init.py or of "catalog.py add" finds the section of the
\* category, the new block stands directly after the heading and description
\* line of the category, and parsing the catalog again gives every entry
\* parsed before, with the same name, category and field values and in the
\* same order, and one new entry of the requested category; when the section
\* is not found, the catalog is left as it was.
C29_AddPreservesRest ==
    AddRan =>
        IF FoundEnd = 0 THEN catalog = op.before
        ELSE /\ BlockAfter(op.before.lines, catalog.lines, FoundEnd, op.name, op.category)
             /\ OneMore(get_all_entries(op.before), get_all_entries(catalog),
                        op.name, op.category)

\* "init.py --category WORK --yes" in /w/Web on "## Quick Reference /
\* ## WORK / *Work projects* / (empty line)" put the block of Web in after
\* line 3, and the catalog parses to no entry as before
C29_Failure ==
    /\ op.kind = "init" /\ op.outcome = "ran" /\ op.category = CatWork
    /\ op.categories = default_categories /\ op.port = None
    /\ op.before.lines = <<HeadQuickRef, HeadWork, DescWork, <<>> >>
    /\ SubSeq(catalog.lines, 1, 5) = <<HeadQuickRef, HeadWork, DescWork, <<>>, HeadWeb>>
    /\ get_all_entries(catalog) = <<>>

---------------------------------------------------------------------------
(* config.py: Config._load, Config.workspace and Config.catalog_file *)

KeyWorkspace == <<"w", "o", "r", "k", "s", "p", "a", "c", "e">>
KeyCatalogFile == <<"c", "a", "t", "a", "l", "o", "g", "_", "f", "i", "l", "e">>

\* Path.home() and the file name the catalog has by default
HomeDir == <<"/", "h", "o", "m", "e", "/", "u">>
CatalogName == <<"C", "A", "T", "A", "L", "O", "G", ".", "m", "d">>

\* str(Path(text)) for the texts used here: Path('') is the directory '.'
PathOf(text) == IF text = <<>> THEN <<".">> ELSE text

\* Path(text).expanduser(): a leading "~" component becomes the home directory
ExpandUser(text) ==
    IF text = <<"~">> THEN HomeDir
    ELSE IF StartsWith(text, <<"~", "/">>) THEN HomeDir \o SubSeq(text, 2, Len(text))
    ELSE PathOf(text)

\* directory / name
JoinPath(dir, name) ==
    IF dir = <<"/">> THEN dir \o name ELSE dir \o <<"/">> \o name

\* a variable of the environment that is set to a value that is not empty:
\* "if os.environ.get(NAME):"
Truthy(value) == value.some /\ value.v # <<>>

\* lines 36-45: the dict read from the config file, the one that
\* CLAUDE_SKILLS_CONFIG names or the default one; {} when the file does not
\* exist and when json.load or open raises
FileConfig(content) == IF content.kind = "dict" THEN content.v ELSE <<>>

\* lines 47-51: the values of the environment put over the file's
WithEnv(config, key, value) ==
    IF Truthy(value) THEN DictSet(config, key, value.v) ELSE config

\* Config_load with the two steps in the other order: the file's values are
\* put over the values of the environment
Config_load_FileLast(env, content) ==
    LET e1 == IF Truthy(env.workspace)
              THEN <<<<KeyWorkspace, env.workspace.v>>>> ELSE <<>>
        e2 == IF Truthy(env.catalog)
              THEN DictSet(e1, KeyCatalogFile, env.catalog.v) ELSE e1
        f == FileConfig(content)
    IN IF Len(f) = 0 THEN e2
       ELSE IF Len(f) = 1 THEN DictSet(e2, f[1][1], f[1][2])
       ELSE DictSet(DictSet(e2, f[1][1], f[1][2]), f[2][1], f[2][2])

\* Config._load: self._config after it
Config_load(env, content) ==
    WithEnv(WithEnv(FileConfig(content), KeyWorkspace, env.workspace),
            KeyCatalogFile, env.catalog)

\* [current] + list(current.parents) for the directory given by its parts
Ancestors(parts) ==
    [k \in 1..(Len(parts) + 1) |->
        IF k = Len(parts) + 1 THEN <<"/">>
        ELSE <<"/">> \o Join(SubSeq(parts, 1, Len(parts) + 1 - k), <<"/">>)]

\* lines 59-68: the first of the working directory and its parents that holds
\* CATALOG.md or .claude-skills, the home directory when none does
FoundWorkspace(dirs, marked) ==
    LET hits == {k \in 1..Len(dirs) : dirs[k] \in marked}
    IN IF hits = {} THEN HomeDir ELSE dirs[FirstOf(hits)]

\* Config.workspace
workspace(config, cwd, marked) ==
    IF DictHas(config, KeyWorkspace) THEN ExpandUser(DictGet(config, KeyWorkspace))
    ELSE FoundWorkspace(Ancestors(PathParts(cwd)), marked)

\* Config.catalog_file
catalog_file(config, cwd, marked) ==
    IF DictHas(config, KeyCatalogFile) THEN ExpandUser(DictGet(config, KeyCatalogFile))
    ELSE JoinPath(workspace(config, cwd, marked), CatalogName)

---------------------------------------------------------------------------
(* SpecConfig: Config() in some environment, and its properties workspace  *)
(* and catalog_file read                                                   *)

EnvWorkspace == <<"/", "e", "n", "v", "/", "w", "s">>
EnvCatalog == <<"~", "/", "e", "n", "v", ".", "m", "d">>
FileWorkspace == <<"~", "/", "w", "s">>
FileCatalog == <<"/", "f", "i", "l", "e", "/", "c", "a", "t", ".", "m", "d">>
ConfigCwd == <<"/", "w", "/", "p">>

\* a variable is not set, set to the empty string, or set to a path
EnvValues(path) == {None, Some(<<>>), Some(path)}

\* the config file is missing, is no JSON, or holds a dict with some of the
\* two keys
ConfigContents ==
    { [kind |-> "missing"], [kind |-> "invalid"] }
        \cup { [kind |-> "dict", v |-> d] :
                  d \in { <<>>,
                          << <<KeyWorkspace, FileWorkspace>> >>,
                          << <<KeyCatalogFile, FileCatalog>> >>,
                          << <<KeyWorkspace, FileWorkspace>>, <<KeyCatalogFile, FileCatalog>> >> } }

\* the directories from the working directory up that hold a marker file
MarkedDirs == SUBSET {<<"/", "w", "/", "p">>, <<"/", "w">>}

InitConfig ==
    /\ catalog = MissingFile
    /\ \E ws \in EnvValues(EnvWorkspace), cat \in EnvValues(EnvCatalog),
          content \in ConfigContents, marked \in MarkedDirs :
          op = [kind |-> "none", env |-> [workspace |-> ws, catalog |-> cat],
                content |-> content, marked |-> marked]
    /\ entries = <<>>
    /\ procs = NoProcs
    /\ overlapped = FALSE

\* get_workspace() and get_catalog_file() of a fresh Config()
GetWorkspace ==
    /\ op.kind = "none"
    /\ op' = [op EXCEPT !.kind = "get_workspace"]
                @@ [ret |-> workspace(Config_load(op.env, op.content), ConfigCwd, op.marked)]
    /\ UNCHANGED <<catalog, entries, procs, overlapped>>

GetCatalogFile ==
    /\ op.kind = "none"
    /\ op' = [op EXCEPT !.kind = "get_catalog_file"]
                @@ [ret |-> catalog_file(Config_load(op.env, op.content), ConfigCwd, op.marked)]
    /\ UNCHANGED <<catalog, entries, procs, overlapped>>

NextConfig == GetWorkspace \/ GetCatalogFile

SpecConfig == InitConfig /\ [][NextConfig]_vars

---------------------------------------------------------------------------
(* What the claim about the configuration speaks of *)

\* what the config file gives for the key, None when it gives nothing
FromFile(key) ==
    IF op.content.kind = "dict" /\ DictHas(op.content.v, key)
    THEN Some(DictGet(op.content.v, key)) ELSE None

\* the workspace when neither the environment nor the file gives one
DefaultWorkspace == FoundWorkspace(Ancestors(PathParts(ConfigCwd)), op.marked)

\* the value that counts: the environment's when the variable passes the
\* test given, else the file's, else the default
Precedence(passes, env_value, file_value, default) ==
    IF passes THEN ExpandUser(env_value.v)
    ELSE IF file_value.some THEN ExpandUser(file_value.v)
    ELSE default

\* the workspace as the claim gives it, for a test of "the variable is set"
ClaimedWorkspace(passes) ==
    Precedence(passes, op.env.workspace, FromFile(KeyWorkspace), DefaultWorkspace)

\* the claim as written, a variable being set when it is in the environment,
\* be it with the empty string as its value
C23_Precedence_WhenSet ==
    /\ op.kind = "get_workspace" => op.ret = ClaimedWorkspace(op.env.workspace.some)
    /\ op.kind = "get_catalog_file" =>
          op.ret = Precedence(op.env.catalog.some, op.env.catalog, FromFile(KeyCatalogFile),
                              JoinPath(ClaimedWorkspace(op.env.workspace.some), CatalogName))

\* C23: the workspace is the value of CLAUDE_SKILLS_WORKSPACE when that is
\* set to a value that is not empty, otherwise the config file's "workspace",
\* otherwise the directory found from the working directory; the catalog
\* path is the value of CLAUDE_SKILLS_CATALOG when that is set to a value
\* that is not empty, otherwise the config file's "catalog_file", otherwise
\* CATALOG.md in the workspace. A value of the environment that is not empty
\* overrides the config file's value for the same key.
C23_Precedence ==
    /\ op.kind = "get_workspace" => op.ret = ClaimedWorkspace(Truthy(op.env.workspace))
    /\ op.kind = "get_catalog_file" =>
          op.ret = Precedence(Truthy(op.env.catalog), op.env.catalog, FromFile(KeyCatalogFile),
                              JoinPath(ClaimedWorkspace(Truthy(op.env.workspace)), CatalogName))

\* both variables are set and the file has both keys: the catalog path is
\* the variable's value, with "~" expanded
C23_Witness ==
    /\ op.kind = "get_catalog_file"
    /\ op.env = [workspace |-> Some(EnvWorkspace), catalog |-> Some(EnvCatalog)]
    /\ op.content.kind = "dict" /\ Len(op.content.v) = 2
    /\ op.ret = <<"/", "h", "o", "m", "e", "/", "u", "/", "e", "n", "v", ".", "m", "d">>

---------------------------------------------------------------------------
(* accounts.py: generate_shell_function and cmd_install *)

\* CONFIG_FILE
AccountsFile == HomeDir \o <<"/", ".", "c", "l", "a", "u", "d", "e", "-", "a", "c", "c", "o", "u", "n", "t", "s", ".", "j", "s", "o", "n">>

\* config.get(key, default)
GetOr(value, default) == IF value.some THEN value.v ELSE default

\* the case block of one account, as its lines; nothing for an account
\* without patterns
CaseBlock(name, info) ==
    IF Len(info.patterns) = 0 THEN <<>>
    ELSE << <<" ", " ", " ", " ">> \o Join(info.patterns, <<"|">>) \o <<")">>,
            <<" ", " ", " ", " ", " ", " ", "c", "o", "n", "f", "i", "g", "_", "d", "i", "r", "=", "\"">> \o GetOr(info.config_dir, <<"~", "/", ".", "c", "l", "a", "u", "d", "e", "-">> \o name) \o <<"\"">>,
            <<" ", " ", " ", " ", " ", " ", ";", ";">> >>

RECURSIVE CaseBlocks(_)
CaseBlocks(accounts) ==
    IF Len(accounts) = 0 THEN <<>>
    ELSE CaseBlock(accounts[1][1], accounts[1][2]) \o CaseBlocks(Tail(accounts))

\* "\n".join(case_blocks) as lines: the empty string is one empty line
CasesLines(blocks) == IF Len(blocks) = 0 THEN << <<>> >> ELSE blocks

\* function_code, as its lines
FunctionCode(config) ==
    << <<"#", " ", "C", "l", "a", "u", "d", "e", " ", "C", "o", "d", "e", " ", "a", "u", "t", "o", "-", "a", "c", "c", "o", "u", "n", "t", " ", "s", "w", "i", "t", "c", "h", "e", "r">>,
       <<"#", " ", "G", "e", "n", "e", "r", "a", "t", "e", "d", " ", "b", "y", ":", " ", "p", "y", "t", "h", "o", "n", "3", " ", "s", "c", "r", "i", "p", "t", "s", "/", "a", "c", "c", "o", "u", "n", "t", "s", ".", "p", "y", " ", "i", "n", "s", "t", "a", "l", "l">>,
       <<"#", " ", "C", "o", "n", "f", "i", "g", " ", "f", "i", "l", "e", ":", " ">> \o AccountsFile,
       GetOr(config.shell_function_name, <<"c", "l", "a", "u", "d", "e">>) \o <<"(", ")", " ", "{">>,
       <<" ", " ", "l", "o", "c", "a", "l", " ", "c", "o", "n", "f", "i", "g", "_", "d", "i", "r">>,
       <<>>,
       <<" ", " ", "c", "a", "s", "e", " ", "\"", "$", "P", "W", "D", "\"", " ", "i", "n">> >>
      \o CasesLines(CaseBlocks(config.accounts))
      \o << <<" ", " ", " ", " ", "*", ")">>,
            <<" ", " ", " ", " ", " ", " ", "c", "o", "n", "f", "i", "g", "_", "d", "i", "r", "=", "\"">> \o GetOr(config.default_config_dir, <<"~", "/", ".", "c", "l", "a", "u", "d", "e">>) \o <<"\"">>,
            <<" ", " ", " ", " ", " ", " ", ";", ";">>,
            <<" ", " ", "e", "s", "a", "c">>,
            <<>>,
            <<" ", " ", "C", "L", "A", "U", "D", "E", "_", "C", "O", "N", "F", "I", "G", "_", "D", "I", "R", "=", "\"", "$", "c", "o", "n", "f", "i", "g", "_", "d", "i", "r", "\"", " ", "c", "o", "m", "m", "a", "n", "d", " ", "c", "l", "a", "u", "d", "e", " ", "\"", "$", "@", "\"">>,
            <<"}">> >>

\* generate_shell_function(config): None without accounts
generate_shell_function(config) ==
    IF Len(config.accounts) = 0 THEN None ELSE Some(FunctionCode(config))

marker_start == <<"#", " ", "C", "l", "a", "u", "d", "e", " ", "C", "o", "d", "e", " ", "a", "u", "t", "o", "-", "a", "c", "c", "o", "u", "n", "t", " ", "s", "w", "i", "t", "c", "h", "e", "r">>

\* the loop over the lines of rc_content from line i on: a line that holds
\* marker_start and the lines up to the next line that is "}" are left out
RECURSIVE Unskipped(_, _, _)
Unskipped(lines, i, skip) ==
    IF i > Len(lines) THEN <<>>
    ELSE IF Contains(lines[i], marker_start) THEN Unskipped(lines, i + 1, TRUE)
    ELSE IF skip /\ Strip(lines[i]) = <<"}">> THEN Unskipped(lines, i + 1, FALSE)
    ELSE IF skip THEN Unskipped(lines, i + 1, TRUE)
    ELSE <<lines[i]>> \o Unskipped(lines, i + 1, FALSE)

\* s.rstrip() of one line
RStripLine(s) ==
    LET keep == {k \in 1..Len(s) : ~IsSpace(s[k])}
    IN IF keep = {} THEN <<>> ELSE SubSeq(s, 1, CHOOSE a \in keep : \A b \in keep : a >= b)

\* "\n".join(new_lines).rstrip() as lines: the empty and blank lines at the
\* end go, and the blanks that end the last line left
RStripped(lines) ==
    LET keep == {k \in 1..Len(lines) : RStripLine(lines[k]) # <<>>}
    IN IF keep = {} THEN << <<>> >>
       ELSE [k \in 1..(CHOOSE a \in keep : \A b \in keep : a >= b) |->
                IF \A b \in keep : k >= b THEN RStripLine(lines[k]) ELSE lines[k]]

\* lines 226-239: rc_content without an old installation
WithoutOld(lines) ==
    IF \E k \in 1..Len(lines) : Contains(lines[k], marker_start)
    THEN RStripped(Unskipped(lines, 1, FALSE))
    ELSE lines

\* lines 242-248: rc_content, a line end when it is not empty and does not
\* end with one, an empty line, the function and a line end
Appended(lines, function_code) ==
    IF lines = << <<>> >> THEN << <<>> >> \o function_code \o << <<>> >>
    ELSE IF lines[Len(lines)] = <<>> THEN lines \o function_code \o << <<>> >>
    ELSE lines \o << <<>> >> \o function_code \o << <<>> >>

\* rc_file.read_text() if rc_file.exists() else ""
RcContent(file) == IF file.exists THEN file.lines ELSE << <<>> >>

Installed(file, function_code) ==
    IF function_code.some
    THEN File(Appended(WithoutOld(RcContent(file)), function_code.v))
    ELSE file

\* "accounts.py install" on the rc file: the file after it
cmd_install(file, config) == Installed(file, generate_shell_function(config))

---------------------------------------------------------------------------
(* SpecInstall: up to MaxInstalls runs of "accounts.py install" with one   *)
(* configuration on one rc file                                            *)

MaxInstalls == 3
MaxRcLines == 3

LineExport == <<"e", "x", "p", "o", "r", "t", " ", "A", "=", "1">>
LineBlank == <<" ", " ">>
NameAcme == <<"a", "c", "m", "e">>
NameOther == <<"o", "t", "h", "e", "r">>

RcLinePool == { LineExport, <<>>, LineBlank }

AccountConfigs ==
    { [accounts |-> <<>>, default_config_dir |-> None, shell_function_name |-> None],
      [accounts |-> << <<NameAcme, [config_dir |-> Some(<<"~", "/", ".", "c", "l", "a", "u", "d", "e", "-", "a", "c", "m", "e">>),
                                    patterns |-> <<<<"*", "/", "A", "C", "M", "E", "/", "*">>, <<"*", "/", "a", "c", "m", "e", "/", "*">>>>]>> >>,
       default_config_dir |-> None, shell_function_name |-> None],
      [accounts |-> << <<NameAcme, [config_dir |-> None, patterns |-> <<<<"*", "/", "a", "c", "m", "e", "/", "*">>>>]>>,
                       <<NameOther, [config_dir |-> None, patterns |-> <<>>]>> >>,
       default_config_dir |-> Some(<<"/", "h", "o", "m", "e", "/", "u", "/", ".", "c", "l", "a", "u", "d", "e">>),
       shell_function_name |-> Some(<<"c", "l">>)] }

InitInstall ==
    /\ catalog \in {MissingFile} \cup {File(d) : d \in LinesUpTo(RcLinePool, MaxRcLines)}
    /\ \E config \in AccountConfigs :
          op = [kind |-> "none", n |-> 0, config |-> config, start |-> catalog,
                once |-> catalog]
    /\ entries = <<>>
    /\ procs = NoProcs
    /\ overlapped = FALSE

\* one run of "accounts.py install --rc-file F"; once keeps the file as the
\* first run left it
Install ==
    /\ op.n < MaxInstalls
    /\ catalog' = cmd_install(catalog, op.config)
    /\ op' = [op EXCEPT !.kind = "install", !.n = @ + 1,
                        !.once = IF op.n = 0 THEN cmd_install(catalog, op.config) ELSE @]
    /\ UNCHANGED <<entries, procs, overlapped>>

NextInstall == Install

SpecInstall == InitInstall /\ [][NextInstall]_vars

---------------------------------------------------------------------------
(* What the claim about "accounts.py install" speaks of *)

\* how many lines of the file hold the first line of the function
Copies(lines) == Cardinality({k \in 1..Len(lines) : Contains(lines[k], marker_start)})

\* the lines of the rc file the runs started from
StartLines == RcContent(op.start)

\* C30: after a second run of "accounts.py install" with the same accounts
\* the rc file is what the first run left; after any run that had accounts
\* to install the file holds the function once, and the lines the rc file
\* had at the start are all there, in front of it.
C30_InstallIdempotence ==
    (op.kind = "install" /\ Len(op.config.accounts) > 0) =>
        /\ op.n >= 2 => catalog = op.once
        /\ Copies(catalog.lines) = 1
        /\ SubSeq(catalog.lines, 1, Len(StartLines)) = StartLines

\* on an rc file "export A=1" followed by an empty line and a line end, the
\* first run left two empty lines in front of the function, the second one
C30_Failure ==
    /\ op.kind = "install" /\ op.n = 2 /\ Len(op.config.accounts) = 1
    /\ op.start.lines = <<LineExport, <<>>, <<>> >>
    /\ SubSeq(op.once.lines, 1, 4) = <<LineExport, <<>>, <<>>, marker_start>>
    /\ SubSeq(catalog.lines, 1, 3) = <<LineExport, <<>>, marker_start>>

====
